---- MODULE Spec2Model ----
(***************************************************************************)
(* Aetherium password vault: the session key lifecycle (script.js), the    *)
(* vault module's key and cache (the vault-logic part of database.js) and  *)
(* the crypto helpers (encryption.js), as a state machine.                 *)
(*                                                                         *)
(* JavaScript is single-threaded: every action below is one synchronous    *)
(* run of a handler or of the code between two awaits of an async          *)
(* function.  Awaited calls to the identity provider, the document store   *)
(* and Web Crypto return in any order.                                     *)
(***************************************************************************)
EXTENDS Integers, Sequences, FiniteSets, TLC

\* ------------------------------------------------------------------ bounds
MaxLogins == 1        \* login-form submissions in one behaviour
MaxLogoutClicks == 1  \* clicks on the Log Out button in one behaviour
MaxVaultCalls == 1    \* calls of fetchAndDecryptVaults in the vault-module spec
MaxDocs == 2          \* stored vault documents in the vault-module spec
MaxOps == 2           \* vault operations started in the vault-operations spec

\* ------------------------------------------------------------- JS values
Null == "<null>"              \* null where the non-null values are strings
NullRec == [null |-> TRUE]    \* null where the non-null values are objects

\* ------------------------------------------------------ identity provider
\* Accounts known to the identity provider.
Users == {"alice", "bob", "carol"}

\* user.emailVerified of each account.
EmailVerified(u) == u \in {"alice", "carol"}

\* The account password the provider checks the credential against.
AccountPassword(u) == "pw1"

\* What is typed into the login form: an account with its password, or a
\* wrong password.
LoginInputs ==
    {<<"alice", "pw1">>, <<"alice", "pw2">>, <<"bob", "pw1">>, <<"carol", "pw1">>}

\* -------------------------------------------------------------- encryption
\* TextEncoder.encode(password): a null argument is converted to the
\* string "null" before it is encoded.
EncodePassword(password) == IF password = Null THEN "null" ELSE password

\* deriveKey(password, salt): PBKDF2 is a deterministic function of the
\* encoded password and the salt; the key is named by the pair.
deriveKey(password, salt) == [pw |-> EncodePassword(password), salt |-> salt]

\* arrayBufferToBase64 / base64ToUint8Array: the text form of a binary value.
arrayBufferToBase64(buffer) == <<"b64", buffer>>

base64ToUint8Array(base64) == base64[2]

\* AES-GCM ciphertext of plaintext under key and iv; intact is FALSE when the
\* stored bytes were altered after encryption.
Ciphertext(key, iv, plaintext, intact) ==
    [k |-> key, iv |-> iv, pt |-> plaintext, intact |-> intact]

\* decryptData(key, iv, ciphertext) succeeds exactly when the tag verifies:
\* a key object is given, it is the encrypting key, the iv is the encrypting
\* iv and the bytes are intact.
DecryptOk(key, iv, ciphertext) ==
    /\ key # NullRec
    /\ key = ciphertext.k
    /\ iv = ciphertext.iv
    /\ ciphertext.intact

decryptData(key, iv, ciphertext) == ciphertext.pt

\* Why subtle.decrypt rejects: the key, the iv or the bytes.
FailureCause(key, iv, ciphertext) ==
    IF key # ciphertext.k THEN "key"
    ELSE IF iv # ciphertext.iv THEN "iv"
    ELSE "data"

\* Mutant: the error names what was wrong.
decryptDataError_Cause(key, iv, ciphertext) ==
    <<"Failed to decrypt data.", FailureCause(key, iv, ciphertext)>>

\* The error the catch of decryptData throws when subtle.decrypt rejected.
decryptDataError(key, iv, ciphertext) ==
    <<"Failed to decrypt data. Key might be incorrect or data corrupted.">>

\* The stored {iv, ciphertext} pair of an encrypted field.
StoredField(key, iv, plaintext, intact) ==
    [iv |-> arrayBufferToBase64(iv),
     ciphertext |-> arrayBufferToBase64(Ciphertext(key, iv, plaintext, intact))]

\* ------------------------------------------------------------------ titles
\* A title is a sequence of characters.  The suffix the fetch appends to an
\* undecryptable record is one token that starts with a space.
DecryptionFailedSuffix == " (Decryption Failed)"

\* Collation rank of a character under String.prototype.localeCompare:
\* space before letters, letters alphabetically whatever their case.
LocaleRank(c) ==
    CASE c = DecryptionFailedSuffix -> 0
      [] c = "a" -> 1
      [] c = "B" -> 2
      [] OTHER -> 3

\* Rank of a character in the store's ordering (code point order).
CodePointRank(c) ==
    CASE c = DecryptionFailedSuffix -> 0
      [] c = "B" -> 1
      [] c = "a" -> 2
      [] OTHER -> 3

\* The ranks of the characters of a title under an ordering.
TitleRanks(s, order) ==
    [i \in 1..Len(s) |-> IF order = "locale" THEN LocaleRank(s[i]) ELSE CodePointRank(s[i])]

RECURSIVE RanksLess(_, _)
\* lexicographic order of two rank sequences, a proper prefix first
RanksLess(s, t) ==
    IF s = <<>> THEN t # <<>>
    ELSE IF t = <<>> THEN FALSE
    ELSE IF Head(s) # Head(t) THEN Head(s) < Head(t)
    ELSE RanksLess(Tail(s), Tail(t))

\* a.title.localeCompare(b.title) < 0
LocaleLess(s, t) == RanksLess(TitleRanks(s, "locale"), TitleRanks(t, "locale"))

\* s before t in the store's orderBy("title", "asc")
StoreLess(s, t) == RanksLess(TitleRanks(s, "store"), TitleRanks(t, "store"))

\* s before t under the named ordering
TitleLess(s, t, order) == IF order = "locale" THEN LocaleLess(s, t) ELSE StoreLess(s, t)

RECURSIVE InsertSorted(_, _, _)
\* insert record r after every element that is not greater (stable)
InsertSorted(r, sorted, order) ==
    IF sorted = <<>> THEN <<r>>
    ELSE IF TitleLess(r.title, sorted[Len(sorted)].title, order)
         THEN InsertSorted(r, SubSeq(sorted, 1, Len(sorted) - 1), order)
                  \o <<sorted[Len(sorted)]>>
         ELSE sorted \o <<r>>

RECURSIVE SortBy(_, _)
\* a stable sort of the records of list by title under the named ordering
SortBy(list, order) ==
    IF list = <<>> THEN <<>>
    ELSE InsertSorted(list[Len(list)], SortBy(SubSeq(list, 1, Len(list) - 1), order), order)

\* ------------------------------------------------------------ vault records
\* An encrypted field is usable when the object, its iv and its ciphertext
\* are all present.
FieldPresent(field) ==
    /\ field # NullRec
    /\ field.iv # NullRec
    /\ field.ciphertext # NullRec

\* The cache record of a master-protected document: no decryption attempt.
MasterRecord(vault) ==
    [id |-> vault.id, title |-> vault.title,
     isMasterProtected |-> vault.isMasterProtected,
     password |-> Null, pin |-> Null, decryptionError |-> FALSE,
     masterSalt |-> vault.masterSalt,
     masterEncryptedPayload |-> vault.masterEncryptedPayload]

\* Mutant: the decrypted PIN is dropped.
DecryptedRecord_DropPin(vault, decryptedPassword, decryptedPin) ==
    [id |-> vault.id, title |-> vault.title,
     isMasterProtected |-> vault.isMasterProtected,
     password |-> decryptedPassword, pin |-> Null,
     decryptionError |-> FALSE,
     masterSalt |-> vault.masterSalt,
     masterEncryptedPayload |-> vault.masterEncryptedPayload]

\* The cache record of a document whose fields decrypted.
DecryptedRecord(vault, decryptedPassword, decryptedPin) ==
    [id |-> vault.id, title |-> vault.title,
     isMasterProtected |-> vault.isMasterProtected,
     password |-> decryptedPassword, pin |-> decryptedPin,
     decryptionError |-> FALSE,
     masterSalt |-> vault.masterSalt,
     masterEncryptedPayload |-> vault.masterEncryptedPayload]

\* Mutant: the title of an undecryptable record is left as stored.
FailedRecord_NoSuffix(vault) ==
    [id |-> vault.id, title |-> vault.title,
     isMasterProtected |-> vault.isMasterProtected,
     password |-> Null, pin |-> Null, decryptionError |-> TRUE,
     masterSalt |-> vault.masterSalt,
     masterEncryptedPayload |-> vault.masterEncryptedPayload]

\* The cache record of a document one of whose fields failed to decrypt.
FailedRecord(vault) ==
    [id |-> vault.id, title |-> vault.title \o <<DecryptionFailedSuffix>>,
     isMasterProtected |-> vault.isMasterProtected,
     password |-> Null, pin |-> Null, decryptionError |-> TRUE,
     masterSalt |-> vault.masterSalt,
     masterEncryptedPayload |-> vault.masterEncryptedPayload]

\* Whether a present field decrypts under key.
FieldDecrypts(key, field) ==
    DecryptOk(key, base64ToUint8Array(field.iv),
              base64ToUint8Array(field.ciphertext))

\* The plaintext of a field, null when the field is absent.
FieldPlaintext(key, field) ==
    IF FieldPresent(field)
    THEN decryptData(key, base64ToUint8Array(field.iv),
                     base64ToUint8Array(field.ciphertext))
    ELSE Null

\* Mutant: a failed decryption is swallowed and the record is pushed
\* unflagged with null fields.
DecryptVault_Unflagged(key, vault) ==
    IF vault.isMasterProtected THEN MasterRecord(vault)
    ELSE IF /\ FieldPresent(vault.encryptedPassword) => FieldDecrypts(key, vault.encryptedPassword)
            /\ FieldPresent(vault.encryptedPin) => FieldDecrypts(key, vault.encryptedPin)
         THEN DecryptedRecord(vault, FieldPlaintext(key, vault.encryptedPassword),
                              FieldPlaintext(key, vault.encryptedPin))
         ELSE DecryptedRecord(vault, Null, Null)

\* One iteration of the loop of fetchAndDecryptVaults: the cache record that
\* is pushed for one raw document, decrypting with the key held right now.
DecryptVault(key, vault) ==
    IF vault.isMasterProtected THEN MasterRecord(vault)
    ELSE IF /\ FieldPresent(vault.encryptedPassword) => FieldDecrypts(key, vault.encryptedPassword)
            /\ FieldPresent(vault.encryptedPin) => FieldDecrypts(key, vault.encryptedPin)
         THEN DecryptedRecord(vault, FieldPlaintext(key, vault.encryptedPassword),
                              FieldPlaintext(key, vault.encryptedPin))
         ELSE FailedRecord(vault)

\* getVaults(userId): the documents of a user ordered by title; documents
\* with equal titles keep their document order.
getVaults(docs, userId) == SortBy(docs[userId], "store")

\* Mutant: the key is replaced and the cache is kept.
setVaultEncryptionKey_KeepCache(st, key) == [st EXCEPT !.key = key]

\* setVaultEncryptionKey(key) on a pair of module state: installs the key and
\* empties the cache when the key is falsy.
setVaultEncryptionKey(st, key) ==
    [st EXCEPT !.key = key,
               !.cache = IF key = NullRec THEN <<>> ELSE @]

\* ------------------------------------------------------------------- state
VARIABLES
    authUser,                 \* auth.currentUser: a user id or Null
    profiles,                 \* users/{uid}.salt in the store, Null if missing
    vaultDocs,                \* users/{uid}/vaults in the store
    temporaryLoginPassword,   \* script.js
    currentEncryptionKey,     \* vault module
    vaultsCache,              \* vault module
    login,                    \* the login-form submit handler
    signOutPending,           \* calls of signOut(auth) that have not returned
    listeners,                \* suspended runs of the two auth-state listeners
    fetches,                  \* suspended runs of fetchAndDecryptVaults
    mainNavShown,             \* the logged-in navigation is visible
    booted,                   \* the provider has reported the initial state
    nLogins,                  \* history: login submissions so far
    nLogoutClicks,            \* history: Log Out clicks so far
    nFetches,                 \* history: fetchAndDecryptVaults calls so far
    deriveCalls,              \* history: deriveKey calls made for each login
    lastOp,                   \* history: what the last step did
    ops,                      \* suspended add, edit, delete and unlock runs
    historyDocs,              \* users/{uid}/history of the signed-in user
    ui,                       \* the master-password, PIN and edit overlays
    audit,                    \* history: unlocked and added records
    nOps,                     \* history: vault operations started so far
    accounts,                 \* the accounts the identity provider holds
    signup,                   \* the sign-up form submit handler
    picture,                  \* runs of handleProfilePictureChange
    decryptions,              \* history: the last decryptions and their outcomes
    codec,                    \* a byte sequence on its way through the Base64 helpers
    derivations,              \* history: the calls of deriveKey and their outcomes
    timers,                   \* the auto-logout timers and the activity listeners
    deletion                  \* the delete-account form submit handler

vars == <<authUser, profiles, vaultDocs, temporaryLoginPassword,
          currentEncryptionKey, vaultsCache, login, signOutPending, listeners,
          fetches, mainNavShown, timers, booted, nLogins, nLogoutClicks,
          nFetches, deriveCalls, lastOp, ops, historyDocs, ui, audit, nOps,
          accounts, signup, picture, decryptions, codec, derivations, deletion>>

\* The variables of the vault operations and their overlays.
opsVars == <<ops, historyDocs, ui, audit, nOps>>

\* The variables of the accounts: sign-up, the profile picture and the
\* deletion of the account.
acctVars == <<accounts, signup, picture, deletion>>

\* The record of the crypto helpers that were called.
cryptoVars == <<decryptions, codec, derivations>>

\* The variables of the store.
storeVars == <<profiles, vaultDocs>>

\* No byte sequence is on its way through the Base64 helpers.
IdleCodec == [pc |-> "idle", b |-> <<>>, text |-> <<>>, bytes |-> <<>>]

\* No crypto helper has been called.
CryptoIdle ==
    /\ decryptions = <<>>
    /\ codec = IdleCodec
    /\ derivations = <<>>

\* The session state that the listeners and the vault module write.
Session ==
    [temp |-> temporaryLoginPassword, key |-> currentEncryptionKey,
     cache |-> vaultsCache, so |-> signOutPending, inv |-> listeners,
     nav |-> mainNavShown, timers |-> timers]

\* Write a session state back to the variables.
SetSession(st) ==
    /\ temporaryLoginPassword' = st.temp
    /\ currentEncryptionKey' = st.key
    /\ vaultsCache' = st.cache
    /\ signOutPending' = st.so
    /\ listeners' = st.inv
    /\ mainNavShown' = st.nav
    /\ timers' = st.timers

\* No overlay is open: the master-password prompt (currentVaultIdForMaster,
\* masterPasswordCallback), the PIN prompt (currentVaultIdForPin,
\* pinRequestCallback) and the edit overlay (vaultIdToEdit and the values the
\* form was filled with).  asked is history: the request the PIN prompt that
\* is shown was opened with.
NoCallback == [kind |-> "none", id |-> Null, n |-> 0]

ClosedEdit == [id |-> Null, shown |-> FALSE, password |-> Null, pin |-> Null]

\* The forgot-PIN flow when it is not in use: currentVaultIdForPinReset is
\* null, the re-authentication overlay and the reset overlay are hidden, no
\* reauthenticateUser call is running and no timer is pending.  since is
\* history: a re-authentication succeeded since the link was clicked;
\* steps counts the clicks and submissions of the flow.
ClosedReset ==
    [id |-> Null, reauthShown |-> FALSE, actionShown |-> FALSE,
     enabled |-> FALSE, formShown |-> FALSE, calls |-> {}, opens |-> 0,
     closes |-> 0, since |-> FALSE, steps |-> 0]

ClosedOverlays ==
    [master |-> [id |-> Null, cb |-> NoCallback, shown |-> FALSE,
                 stale |-> FALSE, pin |-> Null],
     pin |-> [id |-> Null, cb |-> NoCallback, shown |-> FALSE,
              asked |-> NoCallback],
     edit |-> ClosedEdit,
     reset |-> ClosedReset]

\* Nothing was unlocked since the cache was rebuilt, nothing was added,
\* no edit has written the store and no edit has returned.
NoAudit == [unlocked |-> {}, added |-> {}, edited |-> {}, wrote |-> {}]

\* An auth event for a verified user finds no temporary password.
NoPasswordEvent(user, temp) == user # Null /\ EmailVerified(user) /\ temp = Null

\* ------------------------------------------------------------ auto logout
\* inactivityTimerId and warningTimerId hold a timeout that has not fired,
\* the warning is shown, handleUserActivity is registered for the activity
\* events; n is history: the activity events handled so far.  The countdown
\* interval only rewrites the text of the warning.
NoTimers ==
    [inactivity |-> FALSE, warning |-> FALSE, shown |-> FALSE,
     listening |-> FALSE, n |-> 0]

clearLogoutTimersAndWarning(t) ==
    [t EXCEPT !.inactivity = FALSE, !.warning = FALSE, !.shown = FALSE]

startAutoLogoutTimers(t) ==
    [clearLogoutTimersAndWarning(t) EXCEPT !.inactivity = TRUE]

\* The inactivity timeout has fired: the warning is shown and the warning
\* timeout is set.
showLogoutWarning(t) ==
    [t EXCEPT !.inactivity = FALSE, !.shown = TRUE, !.warning = TRUE]

\* Mutant: the warning timeout only shows the notification.
performAutoLogout_NotifyOnly(st) == [st EXCEPT !.timers.warning = FALSE]

\* The warning timeout has fired: logOutUser is called.
performAutoLogout(st) ==
    [st EXCEPT !.timers.warning = FALSE, !.so = @ + 1]

\* The second listener starts with clearLogoutTimersAndWarning and
\* removeActivityListeners, whatever the auth event is.
AuthChangeClears(st) ==
    [st EXCEPT !.timers =
        [clearLogoutTimersAndWarning(@) EXCEPT !.listening = FALSE]]

\* The success path of the second listener ends with startAutoLogoutTimers
\* and addActivityListeners.
AutoLogoutStarted(st) ==
    [st EXCEPT !.timers = [startAutoLogoutTimers(@) EXCEPT !.listening = TRUE]]

\* The timers of a session that the second listener has established.
RunningTimers == AutoLogoutStarted([timers |-> NoTimers]).timers

\* ------------------------------------------------- auth-state listeners
\* script.js registers two listeners with onAuthChange; the provider calls
\* both, in registration order, for every change of the signed-in user.
ListenerIds == {1, 2}

\* The logged-out branch and the unverified branch of a listener: both drop
\* the temporary password and the key and show the logged-out navigation.
ListenerClearBranch(st) ==
    [setVaultEncryptionKey(st, NullRec) EXCEPT !.temp = Null, !.nav = FALSE]

\* Mutant: the catch branch does not log the user out.
ListenerCatchBranch_NoLogout(st) ==
    [setVaultEncryptionKey(st, NullRec) EXCEPT !.temp = Null]

\* The catch (keyError) branch of a listener.
ListenerCatchBranch(st) ==
    [setVaultEncryptionKey(st, NullRec) EXCEPT !.temp = Null, !.so = @ + 1]

\* Mutant: a verified user without a login password is left signed in.
ListenerSync_NoLogout(st, l, user, lg) ==
    IF user = Null THEN ListenerClearBranch(st)
    ELSE IF ~EmailVerified(user) THEN ListenerClearBranch(st)
    ELSE IF st.temp = Null THEN st
    ELSE [st EXCEPT !.inv = @ \cup
             {[l |-> l, login |-> lg, user |-> user, pc |-> "profile",
               pw |-> Null, salt |-> Null]}]

\* The synchronous part of one listener run for an auth event, up to its
\* first await (getUserProfile) or its return.
ListenerSync(st, l, user, lg) ==
    IF user = Null THEN ListenerClearBranch(st)
    ELSE IF ~EmailVerified(user) THEN ListenerClearBranch(st)
    ELSE IF st.temp = Null THEN [st EXCEPT !.so = @ + 1]
    ELSE [st EXCEPT !.inv = @ \cup
             {[l |-> l, login |-> lg, user |-> user, pc |-> "profile",
               pw |-> Null, salt |-> Null]}]

\* Mutant: the temporary password survives the derivation.
KeyDerived_KeepPassword(st, key) ==
    setVaultEncryptionKey([st EXCEPT !.nav = TRUE], key)

\* The success path of a listener after deriveKey returned: the temporary
\* password is dropped, the key is installed and the logged-in navigation
\* is shown.
KeyDerived(st, key) ==
    setVaultEncryptionKey([st EXCEPT !.temp = Null, !.nav = TRUE], key)

\* The provider notifies both listeners of an auth event.
Dispatch(st, user, lg) ==
    ListenerSync(AuthChangeClears(ListenerSync(st, 1, user, lg)), 2, user, lg)

\* Mutant: the key check is missing.
FetchCanStart_NoKeyCheck(user, key) == user # Null

\* The synchronous part of fetchAndDecryptVaults: it throws when nobody is
\* signed in or no key is installed, and otherwise awaits getVaults.
FetchCanStart(user, key) == user # Null /\ key # NullRec

NewFetch(id, user) ==
    [id |-> id, uid |-> user, pc |-> "getVaults", raw |-> <<>>, out |-> <<>>]

\* ---------------------------------------------------------------- actions
\* The login handler when no submission is being processed.
IdleLogin == [pc |-> "idle", user |-> Null, pw |-> Null, n |-> 0]

\* The sign-up handler when no submission is being processed, with the
\* notifications its last run showed, and no profile picture being saved.
IdleSignup == [pc |-> "idle", user |-> Null, salt |-> Null, n |-> 0,
               shown |-> <<>>]

IdlePicture == [n |-> 0, runs |-> {}, shown |-> <<>>]

\* The delete-account handler when no submission is being processed:
\* pending are the deleteDoc calls of deleteAllUserVaults that have not
\* returned; done is history: the steps of the last run that succeeded.
IdleDeletion ==
    [pc |-> "idle", uid |-> Null, password |-> Null, pending |-> {},
     done |-> <<>>, n |-> 0, shown |-> <<>>]

\* Every identity has its account, no sign-up was submitted and no picture
\* was chosen.
AccountsIdle ==
    /\ accounts = Users
    /\ signup = IdleSignup
    /\ picture = IdlePicture
    /\ deletion = IdleDeletion

\* The provider reports the state found at page load to the listeners.
InitialAuthEvent ==
    /\ ~booted
    /\ booted' = TRUE
    /\ SetSession(Dispatch(Session, authUser, 0))
    /\ lastOp' = IF NoPasswordEvent(authUser, temporaryLoginPassword)
                 THEN "NoPasswordLogout"
                 ELSE "InitialAuthEvent"
    /\ UNCHANGED <<authUser, storeVars, login, fetches, nLogins,
                   nLogoutClicks, nFetches, deriveCalls>>
    /\ UNCHANGED <<opsVars, acctVars, cryptoVars>>

\* The login form is submitted: the password is kept and logInUser is awaited.
LoginSubmit(u, password) ==
    /\ booted
    /\ ~mainNavShown
    /\ login.pc = "idle"
    /\ nLogins < MaxLogins
    /\ nLogins' = nLogins + 1
    /\ temporaryLoginPassword' = password
    /\ login' = [pc |-> "auth", user |-> u, pw |-> password, n |-> nLogins + 1]
    /\ lastOp' = "LoginSubmit"
    /\ UNCHANGED <<authUser, storeVars, currentEncryptionKey, vaultsCache,
                   signOutPending, listeners, fetches, mainNavShown, timers,
                   booted,
                   nLogoutClicks, nFetches, deriveCalls>>
    /\ UNCHANGED <<opsVars, acctVars, cryptoVars>>

\* logInUser rejects: wrong credential or provider failure.
LoginFail ==
    /\ login.pc = "auth"
    /\ login' = IdleLogin
    /\ temporaryLoginPassword' = Null
    /\ lastOp' = "LoginFail"
    /\ UNCHANGED <<authUser, storeVars, currentEncryptionKey, vaultsCache,
                   signOutPending, listeners, fetches, mainNavShown, timers,
                   booted,
                   nLogins, nLogoutClicks, nFetches, deriveCalls>>
    /\ UNCHANGED <<opsVars, acctVars, cryptoVars>>

\* signInWithEmailAndPassword succeeds: the user is signed in, the listeners
\* are notified if the signed-in user changed, and logInUser rejects after
\* all when the email is not verified.  The provider applies its operations
\* in the order they were issued: a signOut called earlier has returned.
LoginSignedIn ==
    /\ login.pc = "auth"
    /\ login.pw = AccountPassword(login.user)
    /\ signOutPending = 0
    /\ authUser' = login.user
    /\ LET notified == IF authUser # login.user
                       THEN Dispatch(Session, login.user, login.n)
                       ELSE Session
       IN SetSession(IF EmailVerified(login.user) THEN notified
                     ELSE [notified EXCEPT !.temp = Null])
    /\ login' = IdleLogin
    /\ lastOp' = IF ~EmailVerified(login.user) THEN "LoginUnverified"
                 ELSE IF authUser # login.user
                         /\ NoPasswordEvent(login.user, temporaryLoginPassword)
                      THEN "NoPasswordLogout"
                      ELSE "LoginOk"
    /\ UNCHANGED <<storeVars, fetches, booted, nLogins, nLogoutClicks,
                   nFetches, deriveCalls>>
    /\ UNCHANGED <<opsVars, acctVars, cryptoVars>>

\* The Log Out button of the logged-in navigation: logOutUser is called.
LogoutClick ==
    /\ booted
    /\ mainNavShown
    /\ nLogoutClicks < MaxLogoutClicks
    /\ nLogoutClicks' = nLogoutClicks + 1
    /\ signOutPending' = signOutPending + 1
    /\ lastOp' = "LogoutClick"
    /\ UNCHANGED <<authUser, storeVars, temporaryLoginPassword,
                   currentEncryptionKey, vaultsCache, login, listeners,
                   fetches, mainNavShown, timers, booted, nLogins, nFetches,
                   deriveCalls>>
    /\ UNCHANGED <<opsVars, acctVars, cryptoVars>>

\* A signOut(auth) call returns: nobody is signed in any more and the
\* listeners are notified if somebody was.
SignOutReturn ==
    /\ signOutPending > 0
    /\ authUser' = Null
    /\ LET done == [Session EXCEPT !.so = @ - 1]
       IN SetSession(IF authUser # Null THEN Dispatch(done, Null, 0) ELSE done)
    /\ lastOp' = "SignOutReturn"
    /\ UNCHANGED <<storeVars, login, fetches, booted, nLogins, nLogoutClicks,
                   nFetches, deriveCalls>>
    /\ UNCHANGED <<opsVars, acctVars, cryptoVars>>

\* The salt check of the listener on the profile getUserProfile returned.
ProfileIncomplete(userProfile) ==
    \/ userProfile = NullRec
    \/ userProfile.salt = NullRec

\* getUserProfile returns.  When it rejected, or the profile or its salt is
\* missing, the catch branch of the listener runs; otherwise deriveKey is
\* called with the temporary password as it is now.
ListenerProfileReturn(i, rejected) ==
    /\ i \in listeners
    /\ i.pc = "profile"
    /\ IF rejected \/ ProfileIncomplete(profiles[i.user])
       THEN /\ SetSession(ListenerCatchBranch([Session EXCEPT !.inv = @ \ {i}]))
            /\ lastOp' = IF rejected THEN "ProfileRejected" ELSE "ProfileIncomplete"
            /\ UNCHANGED deriveCalls
       ELSE /\ listeners' = (listeners \ {i}) \cup
                   {[i EXCEPT !.pc = "derive", !.pw = temporaryLoginPassword,
                              !.salt = base64ToUint8Array(profiles[i.user].salt)]}
            /\ deriveCalls' = [deriveCalls EXCEPT ![i.login] = @ + 1]
            /\ lastOp' = "DeriveCalled"
            /\ UNCHANGED <<temporaryLoginPassword, currentEncryptionKey,
                           vaultsCache, signOutPending, mainNavShown, timers>>
    /\ UNCHANGED <<authUser, storeVars, login, fetches, booted, nLogins,
                   nLogoutClicks, nFetches>>
    /\ UNCHANGED <<opsVars, acctVars, cryptoVars>>

\* deriveKey rejects: the catch branch of the listener runs.
ListenerDeriveFail(i) ==
    /\ i \in listeners
    /\ i.pc = "derive"
    /\ SetSession(ListenerCatchBranch([Session EXCEPT !.inv = @ \ {i}]))
    /\ lastOp' = "ListenerDeriveFail"
    /\ UNCHANGED <<authUser, storeVars, login, fetches, booted, nLogins,
                   nLogoutClicks, nFetches, deriveCalls>>
    /\ UNCHANGED <<opsVars, acctVars, cryptoVars>>

\* deriveKey returns: the temporary password is dropped, the key is
\* installed, the logged-in navigation is shown and displayVaults starts a
\* fetch (which throws at once when nobody is signed in).
ListenerDeriveOk(i) ==
    /\ i \in listeners
    /\ i.pc = "derive"
    /\ LET derived ==
               KeyDerived([Session EXCEPT !.inv = @ \ {i}], deriveKey(i.pw, i.salt))
           installed == IF i.l = 2 THEN AutoLogoutStarted(derived) ELSE derived
       IN /\ SetSession(installed)
          /\ IF FetchCanStart(authUser, installed.key)
             THEN fetches' = fetches \cup {NewFetch(<<i.l, i.login>>, authUser)}
             ELSE UNCHANGED fetches
    /\ lastOp' = "ListenerDeriveOk"
    /\ UNCHANGED <<authUser, storeVars, login, booted, nLogins,
                   nLogoutClicks, nFetches, deriveCalls>>
    /\ UNCHANGED <<opsVars, acctVars, cryptoVars>>

\* ------------------------------------------------ fetchAndDecryptVaults
\* Mutant: the list is published while it is being built.
FetchProgress_Publish(cache, decryptedVaults) == decryptedVaults

\* A PIN reset that awaited the fetch calls displayVaults, which fetches
\* again; no other caller goes on to a fetch of its own.
FetchThen(f) ==
    IF f.id[1] = 5 /\ FetchCanStart(authUser, currentEncryptionKey)
    THEN {NewFetch(<<6, f.id[2]>>, authUser)}
    ELSE {}

\* While the loop runs the records are pushed to the local decryptedVaults;
\* the cache is what it was.
FetchProgress(cache, decryptedVaults) == cache

\* Mutant: the list is assigned as the loop left it.
FetchAssign_Unsorted(out) == out

\* The assignment that ends a fetch: the cache becomes the sorted list.
FetchAssign(out) == SortBy(out, "locale")

\* A fetch that ends assigns the cache.  The records are new objects, so an
\* unlock that holds a record of the old list no longer reaches the cache;
\* the edit form that awaited the fetch closes its overlay, and a PIN reset
\* that awaited it sets the timer that closes the reset overlay.
FetchEnds(f, out) ==
    /\ vaultsCache' = FetchAssign(out)
    /\ ops' = {IF o.kind = "unlock" THEN [o EXCEPT !.stale = TRUE] ELSE o : o \in ops}
    /\ audit' = [audit EXCEPT !.unlocked = {}]
    /\ ui' = [ui EXCEPT !.master.stale = (ui.master.id # Null),
                         !.edit = IF f.id[1] = 4 THEN ClosedEdit ELSE @,
                         !.reset.closes = IF f.id[1] = 5 THEN @ + 1 ELSE @]
    /\ UNCHANGED <<historyDocs, nOps>>

\* getVaults rejects: the fetch rethrows and the cache stays as it is.
FetchReadFail(f) ==
    /\ f \in fetches
    /\ f.pc = "getVaults"
    /\ fetches' = fetches \ {f}
    /\ lastOp' = "FetchReadFail"
    /\ UNCHANGED <<authUser, storeVars, temporaryLoginPassword,
                   currentEncryptionKey, vaultsCache, login, signOutPending,
                   listeners, mainNavShown, timers, booted, nLogins,
                   nLogoutClicks,
                   nFetches, deriveCalls>>
    /\ UNCHANGED <<opsVars, acctVars, cryptoVars>>

\* getVaults returns the raw documents.  With no document the loop is
\* skipped and the cache is assigned at once.
FetchRead(f) ==
    /\ f \in fetches
    /\ f.pc = "getVaults"
    /\ LET rawVaults == getVaults(vaultDocs, f.uid)
       IN IF rawVaults = <<>>
          THEN /\ fetches' = (fetches \ {f}) \cup FetchThen(f)
               /\ FetchEnds(f, <<>>)
               /\ lastOp' = "FetchDone"
          ELSE /\ fetches' = (fetches \ {f}) \cup
                      {[f EXCEPT !.pc = "decrypt", !.raw = rawVaults]}
               /\ lastOp' = "FetchRead"
               /\ UNCHANGED <<vaultsCache, opsVars>>
    /\ UNCHANGED <<authUser, storeVars, temporaryLoginPassword,
                   currentEncryptionKey, login, signOutPending, listeners,
                   mainNavShown, timers, booted, nLogins, nLogoutClicks,
                   nFetches,
                   deriveCalls, acctVars, cryptoVars>>

\* One iteration of the loop: the next raw document is decrypted with the
\* key installed now.  After the last document the cache is assigned.
FetchDecryptNext(f) ==
    /\ f \in fetches
    /\ f.pc = "decrypt"
    /\ LET decryptedVaults ==
               Append(f.out, DecryptVault(currentEncryptionKey, Head(f.raw)))
       IN IF Tail(f.raw) = <<>>
          THEN /\ fetches' = (fetches \ {f}) \cup FetchThen(f)
               /\ FetchEnds(f, decryptedVaults)
               /\ lastOp' = "FetchDone"
          ELSE /\ fetches' = (fetches \ {f}) \cup
                      {[f EXCEPT !.raw = Tail(@), !.out = decryptedVaults]}
               /\ lastOp' = "FetchStep"
               /\ vaultsCache' = FetchProgress(vaultsCache, decryptedVaults)
               /\ UNCHANGED opsVars
    /\ UNCHANGED <<authUser, storeVars, temporaryLoginPassword,
                   currentEncryptionKey, login, signOutPending, listeners,
                   mainNavShown, timers, booted, nLogins, nLogoutClicks,
                   nFetches,
                   deriveCalls, acctVars, cryptoVars>>

\* -------------------------------------------------------- whole program
\* The key of alice's account: her account password and her stored salt.
AliceKey == deriveKey("pw1", "saltA")

\* A stored document.
VaultDoc(id, title, kind) ==
    [id |-> id, title |-> title, isMasterProtected |-> kind = "master",
     encryptedPassword |->
         IF kind = "master" THEN NullRec
         ELSE StoredField(AliceKey, 1, "secret", kind # "badPassword"),
     encryptedPin |->
         IF kind \in {"master", "noPin"} THEN NullRec
         ELSE StoredField(AliceKey, 2, "1234", kind # "badPin"),
     masterSalt |->
         IF kind = "master" THEN arrayBufferToBase64("saltM") ELSE NullRec,
     masterEncryptedPayload |->
         IF kind = "master"
         THEN StoredField(deriveKey("Sesame1!", "saltM"), 3,
                          [password |-> "secret", pin |-> "1234"], TRUE)
         ELSE NullRec]

\* The profiles in the store: carol signed up but her profile was not saved,
\* or was saved without a salt.
InitProfiles(carolProfile) ==
    [u \in Users |->
        CASE u = "alice" -> [salt |-> arrayBufferToBase64("saltA")]
          [] u = "bob" -> [salt |-> arrayBufferToBase64("saltB")]
          [] OTHER -> carolProfile]

\* The vault documents in the store at page load.
InitVaultDocs ==
    [u \in Users |->
        IF u = "alice"
        THEN <<VaultDoc("v1", <<"a">>, "plain"), VaultDoc("v2", <<"B">>, "master")>>
        ELSE <<>>]

\* Page load: the provider may hold a persisted session of any account.
Init ==
    /\ authUser \in Users \cup {Null}
    /\ profiles \in {InitProfiles(NullRec), InitProfiles([salt |-> NullRec])}
    /\ vaultDocs = InitVaultDocs
    /\ temporaryLoginPassword = Null
    /\ currentEncryptionKey = NullRec
    /\ vaultsCache = <<>>
    /\ login = IdleLogin
    /\ signOutPending = 0
    /\ listeners = {}
    /\ fetches = {}
    /\ mainNavShown = FALSE
    /\ timers = NoTimers
    /\ booted = FALSE
    /\ nLogins = 0
    /\ nLogoutClicks = 0
    /\ nFetches = 0
    /\ deriveCalls = [n \in 0..MaxLogins |-> 0]
    /\ lastOp = "Init"
    /\ ops = {}
    /\ historyDocs = <<>>
    /\ ui = ClosedOverlays
    /\ audit = NoAudit
    /\ nOps = 0
    /\ AccountsIdle
    /\ CryptoIdle

Next ==
    \/ InitialAuthEvent
    \/ \E c \in LoginInputs : LoginSubmit(c[1], c[2])
    \/ LoginFail
    \/ LoginSignedIn
    \/ LogoutClick
    \/ SignOutReturn
    \/ \E i \in listeners, rejected \in BOOLEAN : ListenerProfileReturn(i, rejected)
    \/ \E i \in listeners : ListenerDeriveFail(i)
    \/ \E i \in listeners : ListenerDeriveOk(i)
    \/ \E f \in fetches : FetchReadFail(f)
    \/ \E f \in fetches : FetchRead(f)
    \/ \E f \in fetches : FetchDecryptNext(f)

Spec == Init /\ [][Next]_vars

\* ------------------------------------------------- the vault module alone
\* The vault module under any caller: setVaultEncryptionKey and
\* fetchAndDecryptVaults are called in any order, over any stored documents.

\* The keys a caller installs: none, alice's key, and a key derived from
\* another password.
VaultKeys == {NullRec, AliceKey, deriveKey(Null, "saltA")}

\* The documents the application can have written, intact or altered in the
\* store.
DocKinds == {"plain", "noPin", "badPassword", "badPin", "master"}

DocTitles == {<<"a">>, <<"B">>}

DocIds == <<"v1", "v2", "v3", "v4">>

\* The lists of at most MaxDocs stored documents.
DocLists ==
    UNION {
        { [i \in 1..n |-> VaultDoc(DocIds[i], spec[i][1], spec[i][2])] :
            spec \in [1..n -> DocTitles \X DocKinds] } :
        n \in 0..MaxDocs }

\* A caller calls setVaultEncryptionKey(key).
VaultSetKey(key) ==
    /\ LET st == setVaultEncryptionKey(Session, key)
       IN /\ currentEncryptionKey' = st.key
          /\ vaultsCache' = st.cache
    /\ lastOp' = IF key # NullRec THEN "SetKey"
                 ELSE IF vaultsCache # <<>> THEN "ClearNonEmpty" ELSE "ClearEmpty"
    /\ UNCHANGED <<authUser, storeVars, temporaryLoginPassword, login,
                   signOutPending, listeners, fetches, mainNavShown, timers,
                   booted,
                   nLogins, nLogoutClicks, nFetches, deriveCalls>>
    /\ UNCHANGED <<opsVars, acctVars, cryptoVars>>

\* A caller calls fetchAndDecryptVaults(): it throws before reading the
\* store when nobody is signed in or no key is installed.
VaultFetchCall ==
    /\ nFetches < MaxVaultCalls
    /\ nFetches' = nFetches + 1
    /\ IF FetchCanStart(authUser, currentEncryptionKey)
       THEN /\ fetches' = fetches \cup {NewFetch(<<0, nFetches + 1>>, authUser)}
            /\ lastOp' = "FetchCalled"
       ELSE /\ UNCHANGED fetches
            /\ lastOp' = IF authUser = Null THEN "FetchNoUser" ELSE "FetchNoKey"
    /\ UNCHANGED <<authUser, storeVars, temporaryLoginPassword,
                   currentEncryptionKey, vaultsCache, login, signOutPending,
                   listeners, mainNavShown, timers, booted, nLogins,
                   nLogoutClicks,
                   deriveCalls>>
    /\ UNCHANGED <<opsVars, acctVars, cryptoVars>>

InitVault ==
    /\ authUser \in {"alice", Null}
    /\ profiles = InitProfiles(NullRec)
    /\ vaultDocs \in {[u \in Users |-> IF u = "alice" THEN docs ELSE <<>>] :
                        docs \in DocLists}
    /\ temporaryLoginPassword = Null
    /\ currentEncryptionKey = NullRec
    /\ vaultsCache = <<>>
    /\ login = IdleLogin
    /\ signOutPending = 0
    /\ listeners = {}
    /\ fetches = {}
    /\ mainNavShown = TRUE
    /\ timers = IF currentEncryptionKey = NullRec THEN NoTimers ELSE RunningTimers
    /\ booted = TRUE
    /\ nLogins = 0
    /\ nLogoutClicks = 0
    /\ nFetches = 0
    /\ deriveCalls = [n \in 0..MaxLogins |-> 0]
    /\ lastOp = "Init"
    /\ ops = {}
    /\ historyDocs = <<>>
    /\ ui = ClosedOverlays
    /\ audit = NoAudit
    /\ nOps = 0
    /\ AccountsIdle
    /\ CryptoIdle

NextVault ==
    \/ \E key \in VaultKeys : VaultSetKey(key)
    \/ VaultFetchCall
    \/ \E f \in fetches : FetchReadFail(f)
    \/ \E f \in fetches : FetchRead(f)
    \/ \E f \in fetches : FetchDecryptNext(f)

SpecVault == InitVault /\ [][NextVault]_vars

\* The whole program with the scheduling the event loop guarantees: a
\* pending provider notification and a pending signOut do complete.
FairSpec == Spec /\ WF_vars(InitialAuthEvent) /\ WF_vars(SignOutReturn)

\* ------------------------------------------------------- vault operations
\* Adding, editing, deleting and unlocking records, by the forms and
\* overlays of the vault page and by any other caller of the vault module.

\* A JavaScript string that counts as false: null or the empty string.
Falsy(x) == x = Null \/ x = ""

\* The document ids the store gives to added documents, the salts
\* generateSalt returns and the ivs encryptData draws, one per operation.
NewIds == <<"v5", "v6", "v7", "v8">>

OpSalts == <<"salt1", "salt2", "salt3", "salt4">>

PasswordIv(n) == 10 + n

PinIv(n) == 20 + n

PayloadIv(n) == 30 + n

\* A suspended run of addVaultWithHistory, editVaultWithHistory, deleteVault
\* or handleMasterPasswordSubmit.
NewOp(kind, n, id, pc, data, form) ==
    [kind |-> kind, n |-> n, id |-> id, pc |-> pc, data |-> data,
     form |-> form, stale |-> FALSE, uid |-> authUser]

\* The values a caller passes to addVaultWithHistory.
PlaintextData(title, password, pin, isMasterProtected, masterPassword) ==
    [title |-> title, password |-> password, pin |-> pin,
     isMasterProtected |-> isMasterProtected, masterPassword |-> masterPassword]

\* The length of the passwords that are typed.
PasswordLength(password) ==
    CASE password = "short" -> 5
      [] password = "" -> 0
      [] OTHER -> 8

\* The checks of handleAddVaultSubmit before it calls addVaultWithHistory.
AddFormValid(pd) ==
    /\ pd.title # <<>>
    /\ ~Falsy(pd.password)
    /\ pd.pin # ""
    /\ pd.isMasterProtected =>
           (~Falsy(pd.masterPassword) /\ PasswordLength(pd.masterPassword) >= 8)
    /\ ~pd.isMasterProtected => pd.masterPassword = Null

\* Mutant: the master password is not asked for.
AddCanPrepare_NoMasterCheck(key, pd) ==
    ~(~pd.isMasterProtected /\ key = NullRec)

\* The checks that open prepareAddVaultData.
AddCanPrepare(key, pd) ==
    /\ ~(~pd.isMasterProtected /\ key = NullRec)
    /\ ~(pd.isMasterProtected /\ Falsy(pd.masterPassword))

\* Mutant: a master-protected record is also encrypted under the session key.
prepareAddVaultData_SessionKeyToo(key, pd, n) ==
    [title |-> pd.title, isMasterProtected |-> pd.isMasterProtected,
     encryptedPassword |->
         IF Falsy(pd.password) THEN NullRec
         ELSE StoredField(key, PasswordIv(n), pd.password, TRUE),
     encryptedPin |->
         IF Falsy(pd.pin) THEN NullRec
         ELSE StoredField(key, PinIv(n), pd.pin, TRUE),
     masterSalt |->
         IF pd.isMasterProtected THEN arrayBufferToBase64(OpSalts[n]) ELSE NullRec,
     masterEncryptedPayload |->
         IF pd.isMasterProtected
         THEN StoredField(deriveKey(pd.masterPassword, OpSalts[n]), PayloadIv(n),
                          [password |-> pd.password, pin |-> pd.pin], TRUE)
         ELSE NullRec]

\* prepareAddVaultData: the object that is written to the store.
prepareAddVaultData(key, pd, n) ==
    [title |-> pd.title, isMasterProtected |-> pd.isMasterProtected,
     encryptedPassword |->
         IF pd.isMasterProtected \/ Falsy(pd.password) THEN NullRec
         ELSE StoredField(key, PasswordIv(n), pd.password, TRUE),
     encryptedPin |->
         IF pd.isMasterProtected \/ Falsy(pd.pin) THEN NullRec
         ELSE StoredField(key, PinIv(n), pd.pin, TRUE),
     masterSalt |->
         IF pd.isMasterProtected THEN arrayBufferToBase64(OpSalts[n]) ELSE NullRec,
     masterEncryptedPayload |->
         IF pd.isMasterProtected
         THEN StoredField(deriveKey(pd.masterPassword, OpSalts[n]), PayloadIv(n),
                          [password |-> pd.password, pin |-> pd.pin], TRUE)
         ELSE NullRec]

\* addVault: the store adds the document under a new id; getVaults returns
\* the id together with the fields.
addVault(docs, userId, id, vaultData) ==
    [docs EXCEPT ![userId] = Append(@, [id |-> id] @@ vaultData)]

\* addHistory: one more entry in the history collection.
addHistory(entries, action, vaultId, vaultTitle) ==
    Append(entries, [action |-> action, vaultId |-> vaultId, vaultTitle |-> vaultTitle])

\* What is left unchanged by a step of a vault operation.
OpFrame ==
    UNCHANGED <<authUser, profiles, temporaryLoginPassword, currentEncryptionKey,
                login, signOutPending, listeners, mainNavShown, timers,
                booted, nLogins,
                nLogoutClicks, nFetches, deriveCalls, acctVars, cryptoVars>>

\* Mutant: the new record is put into the cache before the store write.
AddLeavesCache_Optimistic(cache, pd, id) ==
    Append(cache, [id |-> id, title |-> pd.title,
                   isMasterProtected |-> pd.isMasterProtected,
                   password |-> pd.password, pin |-> pd.pin,
                   decryptionError |-> FALSE, masterSalt |-> NullRec,
                   masterEncryptedPayload |-> NullRec])

\* addVaultWithHistory and prepareAddVaultData do not assign the cache.
AddLeavesCache(cache, pd, id) == cache

\* addVaultWithHistory(plaintextData) up to its first store write; form is
\* TRUE when handleAddVaultSubmit is the caller.  The call throws when nobody
\* is signed in and when prepareAddVaultData rejects the data.  The form's
\* submit button stays disabled until its save, the fetch included, is over.
AddVaultCall(pd, form) ==
    /\ nOps < MaxOps
    /\ form => /\ \A o \in ops : ~(o.kind = "add" /\ o.form)
               /\ \A f \in fetches : f.id[1] # 3
    /\ nOps' = nOps + 1
    /\ IF form /\ (authUser = Null \/ ~AddFormValid(pd))
       THEN /\ lastOp' = "AddFormRejected"
            /\ UNCHANGED ops
       ELSE IF authUser = Null \/ ~AddCanPrepare(currentEncryptionKey, pd)
       THEN /\ lastOp' = IF pd.isMasterProtected THEN "AddNoMasterPassword"
                         ELSE "AddNoKey"
            /\ UNCHANGED ops
       ELSE /\ ops' = ops \cup
                  {NewOp("add", nOps + 1, NewIds[nOps + 1], "addVault",
                         [save |-> prepareAddVaultData(currentEncryptionKey, pd, nOps + 1),
                          plain |-> pd], form)}
            /\ lastOp' = "AddCalled"
    /\ vaultsCache' = IF ops' = ops THEN vaultsCache
                      ELSE AddLeavesCache(vaultsCache, pd, NewIds[nOps + 1])
    /\ UNCHANGED <<vaultDocs, fetches, historyDocs, ui, audit>>
    /\ OpFrame

\* addVault rejects: addVaultWithHistory rethrows.
AddVaultFail(o) ==
    /\ o \in ops /\ o.kind = "add" /\ o.pc = "addVault"
    /\ ops' = ops \ {o}
    /\ lastOp' = "AddWriteFailed"
    /\ UNCHANGED <<vaultDocs, vaultsCache, fetches, historyDocs, ui, audit, nOps>>
    /\ OpFrame

\* addVault returns the new id; addHistory is awaited next.
AddVaultOk(o) ==
    /\ o \in ops /\ o.kind = "add" /\ o.pc = "addVault"
    /\ vaultDocs' = addVault(vaultDocs, o.uid, o.id, o.data.save)
    /\ ops' = (ops \ {o}) \cup {[o EXCEPT !.pc = "addHistory"]}
    /\ lastOp' = "AddWritten"
    /\ UNCHANGED <<vaultsCache, fetches, historyDocs, ui, audit, nOps>>
    /\ OpFrame

\* addHistory rejects: addVaultWithHistory rethrows, the document stays.
AddHistoryFail(o) ==
    /\ o \in ops /\ o.kind = "add" /\ o.pc = "addHistory"
    /\ ops' = ops \ {o}
    /\ lastOp' = "AddHistoryFailed"
    /\ UNCHANGED <<vaultDocs, vaultsCache, fetches, historyDocs, ui, audit, nOps>>
    /\ OpFrame

\* addHistory returns: addVaultWithHistory returns the new id, and the form
\* goes on to fetchAndDecryptVaults.
AddHistoryOk(o) ==
    /\ o \in ops /\ o.kind = "add" /\ o.pc = "addHistory"
    /\ historyDocs' = addHistory(historyDocs, "created", o.id, o.data.plain.title)
    /\ ops' = ops \ {o}
    /\ audit' = [audit EXCEPT !.added = @ \cup
                    {[id |-> o.id, password |-> o.data.plain.password,
                      pin |-> o.data.plain.pin,
                      isMasterProtected |-> o.data.plain.isMasterProtected,
                      masterPassword |-> o.data.plain.masterPassword]}]
    /\ fetches' = IF o.form /\ FetchCanStart(authUser, currentEncryptionKey)
                  THEN fetches \cup {NewFetch(<<3, o.n>>, authUser)}
                  ELSE fetches
    /\ lastOp' = "AddDone"
    /\ UNCHANGED <<vaultDocs, vaultsCache, ui, nOps>>
    /\ OpFrame

\* ---------------------------------------------------------------- lookups
\* vaultsCache.find(v => v.id === vaultId), NullRec when there is none.
getVaultById(cache, vaultId) ==
    LET found == {i \in 1..Len(cache) : cache[i].id = vaultId}
    IN IF found = {} THEN NullRec
       ELSE cache[CHOOSE i \in found : \A j \in found : i <= j]

\* Mutant: an empty PIN counts as a PIN.
vaultHasPin_EmptyCounts(cache, vaultId) ==
    LET vault == getVaultById(cache, vaultId)
    IN vault # NullRec /\ vault.pin # Null

vaultHasPin(cache, vaultId) ==
    LET vault == getVaultById(cache, vaultId)
    IN vault # NullRec /\ ~Falsy(vault.pin)

validatePin(cache, enteredPin, vaultId) ==
    LET vault == getVaultById(cache, vaultId)
    IN vault # NullRec /\ vault.pin = enteredPin

\* --------------------------------------------------------------- overlays
\* The overlays and the suspended runs, as the callbacks change them.
UiOps == [ui |-> ui, ops |-> ops]

\* openEditVaultOverlay(vaultId): vaultIdToEdit is set first; the form is
\* filled and shown when the record is in the cache.
openEditVaultOverlay(st, cache, vaultId) ==
    LET vault == getVaultById(cache, vaultId)
    IN IF vault = NullRec THEN [st EXCEPT !.ui.edit.id = vaultId]
       ELSE [st EXCEPT !.ui.edit =
                [id |-> vaultId, shown |-> TRUE,
                 password |-> IF Falsy(vault.password) THEN "" ELSE vault.password,
                 pin |-> IF Falsy(vault.pin) THEN "" ELSE vault.pin]]

\* deleteVault(vaultId) up to its first await; it throws when nobody is
\* signed in.
deleteVaultCall(st, cache, vaultId, n) ==
    LET vault == getVaultById(cache, vaultId)
    IN IF authUser = Null THEN st
       ELSE [st EXCEPT !.ops = @ \cup
                {NewOp("delete", n, vaultId, "deleteDoc",
                       [title |-> IF vault = NullRec THEN <<>> ELSE vault.title],
                       FALSE)}]

\* The callbacks that are handed to the PIN prompt.
RunPinCallback(st, cache, cb) ==
    CASE cb.kind = "edit" -> openEditVaultOverlay(st, cache, cb.id)
      [] cb.kind = "delete" -> deleteVaultCall(st, cache, cb.id, cb.n)
      [] OTHER -> st

\* requestPinForAction(vaultId, actionType, callback): a record that is not
\* master-protected and has no PIN runs the callback at once.
requestPinForAction(st, cache, vaultId, cb) ==
    LET vault == getVaultById(cache, vaultId)
    IN IF vault = NullRec THEN st
       ELSE IF ~vaultHasPin(cache, vaultId) /\ ~vault.isMasterProtected
            THEN RunPinCallback(st, cache, cb)
            ELSE [st EXCEPT !.ui.pin = [id |-> vaultId, cb |-> cb, shown |-> TRUE,
                                        asked |-> cb]]

\* requestMasterPassword(vaultId, callback).  The callback closes over the
\* record object the click handler found; a submission that is still running
\* holds that same object when it is for this id and no fetch has replaced
\* the cache since it started.
requestMasterPassword(st, cache, vaultId, cb) ==
    LET vault == getVaultById(cache, vaultId)
    IN IF vault = NullRec THEN st
       ELSE IF ~vault.isMasterProtected THEN st
       ELSE [st EXCEPT
                !.ui.master =
                    [id |-> vaultId, cb |-> cb, shown |-> TRUE, stale |-> FALSE,
                     pin |-> vault.pin],
                !.ops = {IF o.kind = "unlock"
                         THEN [o EXCEPT !.data.sameObject = (o.id = vaultId /\ ~o.stale)]
                         ELSE o : o \in @}]

\* The callbacks that are handed to the master-password prompt; vaultPin is
\* the PIN of the record object the click handler found.
RunMasterCallback(st, cache, cb, vaultPin) ==
    CASE cb.kind = "delete" -> deleteVaultCall(st, cache, cb.id, cb.n)
      [] cb.kind = "view" ->
            IF ~Falsy(vaultPin)
            THEN requestPinForAction(st, cache, cb.id,
                                     [kind |-> "edit", id |-> cb.id, n |-> cb.n])
            ELSE openEditVaultOverlay(st, cache, cb.id)
      [] OTHER -> st

\* handleMasterPasswordCancel.
handleMasterPasswordCancel(st) ==
    [st EXCEPT !.ui.master = ClosedOverlays.master]

\* An overlay covers the vault list.
OverlayShown ==
    \/ ui.master.shown \/ ui.pin.shown \/ ui.edit.shown
    \/ ui.reset.reauthShown \/ ui.reset.actionShown

\* The records of the list that react to a click.
Clickable(vaultId) ==
    LET vault == getVaultById(vaultsCache, vaultId)
    IN vault # NullRec /\ ~vault.decryptionError

\* What a click on the list or a step of a prompt leaves unchanged.
UiFrame ==
    /\ UNCHANGED <<vaultDocs, vaultsCache, fetches, historyDocs, audit>>
    /\ OpFrame

\* handleVaultActions, Delete button (the confirm dialog is accepted).
ClickDelete(vaultId) ==
    /\ nOps < MaxOps /\ ~OverlayShown /\ Clickable(vaultId)
    /\ nOps' = nOps + 1
    /\ LET cb == [kind |-> "delete", id |-> vaultId, n |-> nOps + 1]
           st == IF getVaultById(vaultsCache, vaultId).isMasterProtected
                 THEN requestMasterPassword(UiOps, vaultsCache, vaultId, cb)
                 ELSE requestPinForAction(UiOps, vaultsCache, vaultId, cb)
       IN ui' = st.ui /\ ops' = st.ops
    /\ lastOp' = "ClickDelete"
    /\ UiFrame

\* handleVaultActions, View/Edit button of a master-protected record.
ClickViewMaster(vaultId) ==
    /\ nOps < MaxOps /\ ~OverlayShown /\ Clickable(vaultId)
    /\ getVaultById(vaultsCache, vaultId).isMasterProtected
    /\ nOps' = nOps + 1
    /\ LET st == requestMasterPassword(UiOps, vaultsCache, vaultId,
                     [kind |-> "view", id |-> vaultId, n |-> nOps + 1])
       IN ui' = st.ui /\ ops' = st.ops
    /\ lastOp' = "ClickViewMaster"
    /\ UiFrame

\* handleVaultActions, Edit button of a record that is not master-protected.
ClickEdit(vaultId) ==
    /\ nOps < MaxOps /\ ~OverlayShown /\ Clickable(vaultId)
    /\ ~getVaultById(vaultsCache, vaultId).isMasterProtected
    /\ nOps' = nOps + 1
    /\ LET st == requestPinForAction(UiOps, vaultsCache, vaultId,
                     [kind |-> "edit", id |-> vaultId, n |-> nOps + 1])
       IN ui' = st.ui /\ ops' = st.ops
    /\ lastOp' = "ClickEdit"
    /\ UiFrame

\* handlePinSubmit: a valid PIN hides the overlay and runs the callback; the
\* request is forgotten either way.
handlePinSubmit(enteredPin) ==
    /\ ui.pin.shown
    /\ LET valid == validatePin(vaultsCache, enteredPin, ui.pin.id)
           st == IF valid THEN RunPinCallback(UiOps, vaultsCache, ui.pin.cb)
                 ELSE UiOps
       IN /\ ui' = [st.ui EXCEPT !.pin = [id |-> Null, cb |-> NoCallback,
                                          shown |-> ~valid,
                                          asked |-> IF valid THEN NoCallback
                                                    ELSE ui.pin.asked]]
          /\ ops' = st.ops
          /\ lastOp' = IF valid THEN "PinAccepted" ELSE "PinRejected"
    /\ UNCHANGED nOps
    /\ UiFrame

\* handlePinCancel.
handlePinCancel ==
    /\ ui.pin.shown
    /\ ui' = [ui EXCEPT !.pin = ClosedOverlays.pin]
    /\ lastOp' = "PinCancel"
    /\ UNCHANGED <<ops, nOps>>
    /\ UiFrame

\* The Cancel button of the master-password prompt.
MasterCancelClick ==
    /\ ui.master.shown
    /\ ui' = handleMasterPasswordCancel(UiOps).ui
    /\ lastOp' = "MasterCancel"
    /\ UNCHANGED <<ops, nOps>>
    /\ UiFrame

\* handleMasterPasswordSubmit up to deriveKey: the record is looked up in the
\* cache and its salt and payload are read; the Unlock button is disabled
\* while a submission is running.
handleMasterPasswordSubmit(enteredPassword) ==
    /\ ui.master.shown
    /\ \A o \in ops : o.kind # "unlock"
    /\ LET vault == getVaultById(vaultsCache, ui.master.id)
       IN IF Falsy(enteredPassword) \/ ui.master.id = Null
          THEN /\ UNCHANGED <<ui, ops>>
               /\ lastOp' = "MasterEmpty"
          ELSE IF \/ vault = NullRec
                  \/ ~vault.isMasterProtected
                  \/ vault.masterSalt = NullRec
                  \/ vault.masterEncryptedPayload = NullRec
          THEN /\ ui' = handleMasterPasswordCancel(UiOps).ui
               /\ UNCHANGED ops
               /\ lastOp' = "MasterNoRecord"
          ELSE /\ ops' = ops \cup
                     {NewOp("unlock", 0, ui.master.id, "decrypt",
                            [entered |-> enteredPassword,
                             sameObject |-> ~ui.master.stale,
                             masterSalt |-> vault.masterSalt,
                             masterEncryptedPayload |-> vault.masterEncryptedPayload],
                            TRUE)}
               /\ UNCHANGED ui
               /\ lastOp' = "MasterSubmitted"
    /\ UNCHANGED nOps
    /\ UiFrame

\* The entered password is the one the payload was encrypted under.
RightMasterPassword(data) ==
    base64ToUint8Array(data.masterEncryptedPayload.ciphertext).k.pw = data.entered

\* Mutant: any master password is accepted.
MasterDecrypts_AnyPassword(data) == TRUE

\* Whether the entered master password decrypts the payload.
MasterDecrypts(data) ==
    DecryptOk(deriveKey(data.entered, base64ToUint8Array(data.masterSalt)),
              base64ToUint8Array(data.masterEncryptedPayload.iv),
              base64ToUint8Array(data.masterEncryptedPayload.ciphertext))

\* Mutant: the PIN of the payload is lost.
MasterPayload_NoPin(data) ==
    [password |->
         decryptData(deriveKey(data.entered, base64ToUint8Array(data.masterSalt)),
                     base64ToUint8Array(data.masterEncryptedPayload.iv),
                     base64ToUint8Array(data.masterEncryptedPayload.ciphertext)).password,
     pin |-> Null]

\* JSON.parse of the decrypted payload.
MasterPayload(data) ==
    decryptData(deriveKey(data.entered, base64ToUint8Array(data.masterSalt)),
                base64ToUint8Array(data.masterEncryptedPayload.iv),
                base64ToUint8Array(data.masterEncryptedPayload.ciphertext))

\* vault.password = ...; vault.pin = ...: the record object that the
\* submission found is written; the cache shows it while it holds that
\* object.
UnlockRecord(cache, o, payload) ==
    [i \in 1..Len(cache) |->
        IF cache[i].id = o.id /\ ~o.stale
        THEN [cache[i] EXCEPT !.password = payload.password, !.pin = payload.pin]
        ELSE cache[i]]

\* deriveKey and decryptData have returned.  On success the record is
\* written, the overlay is hidden and the callback that is registered now
\* is called; on failure the prompt shows its message.
UnlockReturn(o) ==
    /\ o \in ops /\ o.kind = "unlock"
    /\ IF MasterDecrypts(o.data)
       THEN LET payload == MasterPayload(o.data)
                written == ~o.stale /\ getVaultById(vaultsCache, o.id) # NullRec
                clickPin == IF ui.master.id = o.id /\ o.data.sameObject
                            THEN payload.pin ELSE ui.master.pin
                hidden == [ui |-> [ui EXCEPT !.master.shown = FALSE],
                           ops |-> ops \ {o}]
                st == RunMasterCallback(hidden, vaultsCache', ui.master.cb, clickPin)
            IN /\ vaultsCache' = UnlockRecord(vaultsCache, o, payload)
               /\ audit' = IF written /\ RightMasterPassword(o.data)
                           THEN [audit EXCEPT !.unlocked = @ \cup {o.id}]
                           ELSE audit
               /\ ui' = st.ui
               /\ ops' = st.ops
               /\ lastOp' = "Unlocked"
       ELSE /\ ops' = ops \ {o}
            /\ lastOp' = "UnlockFailed"
            /\ UNCHANGED <<vaultsCache, audit, ui>>
    /\ UNCHANGED <<vaultDocs, fetches, historyDocs, nOps>>
    /\ OpFrame

\* ------------------------------------------------------------- deleteVault
\* deleteVaultDoc rejects: deleteVault throws, the cache is as it was.
DeleteDocFail(o) ==
    /\ o \in ops /\ o.kind = "delete" /\ o.pc = "deleteDoc"
    /\ ops' = ops \ {o}
    /\ lastOp' = "DeleteFailed"
    /\ UNCHANGED <<vaultDocs, vaultsCache, fetches, historyDocs, ui, audit, nOps>>
    /\ OpFrame

\* Mutant: the record stays in the cache after the deletion.
RemoveFromCache_Keep(cache, vaultId) == cache

\* vaultsCache.filter(v => v.id !== vaultId).
RemoveFromCache(cache, vaultId) == SelectSeq(cache, LAMBDA v : v.id # vaultId)

\* deleteVaultDoc returns: the document is gone from the store, the record
\* is filtered out of the cache, addHistory is awaited next.
DeleteDocOk(o) ==
    /\ o \in ops /\ o.kind = "delete" /\ o.pc = "deleteDoc"
    /\ vaultDocs' = [vaultDocs EXCEPT ![o.uid] = SelectSeq(@, LAMBDA d : d.id # o.id)]
    /\ vaultsCache' = RemoveFromCache(vaultsCache, o.id)
    /\ ops' = (ops \ {o}) \cup {[o EXCEPT !.pc = "addHistory"]}
    /\ lastOp' = "Deleted"
    /\ UNCHANGED <<fetches, historyDocs, ui, audit, nOps>>
    /\ OpFrame

\* addHistory returns or rejects after a delete.
DeleteHistoryReturn(o, rejected) ==
    /\ o \in ops /\ o.kind = "delete" /\ o.pc = "addHistory"
    /\ ops' = ops \ {o}
    /\ historyDocs' = IF rejected THEN historyDocs
                      ELSE addHistory(historyDocs, "deleted", o.id, o.data.title)
    /\ lastOp' = IF rejected THEN "DeleteHistoryFailed" ELSE "DeleteDone"
    /\ UNCHANGED <<vaultDocs, vaultsCache, fetches, ui, audit, nOps>>
    /\ OpFrame

\* ------------------------------------------------------ editVaultWithHistory
\* An update object leaves out the fields it does not change.
NoFields == <<>>

\* The checks that open editVaultWithHistory and prepareEditVaultData.
EditCanPrepare(user, key, originalDecryptedVault) ==
    /\ user # Null
    /\ key # NullRec
    /\ originalDecryptedVault # NullRec

\* Mutant: the password is encrypted again on every edit.
prepareEditVaultData_AlwaysEncrypt(key, updated, original, n) ==
    [title |-> updated.title]
    @@ (IF ~Falsy(updated.password)
        THEN [encryptedPassword |->
                  StoredField(key, PasswordIv(n), updated.password, TRUE)]
        ELSE NoFields)
    @@ (IF updated.pin # original.pin
        THEN [encryptedPin |->
                  IF ~Falsy(updated.pin)
                  THEN StoredField(key, PinIv(n), updated.pin, TRUE)
                  ELSE NullRec]
        ELSE NoFields)

\* prepareEditVaultData: the fields that are written to the store.
prepareEditVaultData(key, updated, original, n) ==
    [title |-> updated.title]
    @@ (IF ~Falsy(updated.password) /\ updated.password # original.password
        THEN [encryptedPassword |->
                  StoredField(key, PasswordIv(n), updated.password, TRUE)]
        ELSE NoFields)
    @@ (IF updated.pin # original.pin
        THEN [encryptedPin |->
                  IF ~Falsy(updated.pin)
                  THEN StoredField(key, PinIv(n), updated.pin, TRUE)
                  ELSE NullRec]
        ELSE NoFields)

\* Mutant: the stored fields win over the given ones.
updateVault_KeepOld(docs, userId, vaultId, updatedData) ==
    [docs EXCEPT ![userId] =
        [i \in 1..Len(@) |-> IF @[i].id = vaultId THEN @[i] @@ updatedData ELSE @[i]]]

\* updateDoc: the given fields replace those of the stored document.
updateVault(docs, userId, vaultId, updatedData) ==
    [docs EXCEPT ![userId] =
        [i \in 1..Len(@) |-> IF @[i].id = vaultId THEN updatedData @@ @[i] ELSE @[i]]]

\* The stored document of a user with an id, NullRec when there is none.
StoredDoc(docs, userId, vaultId) ==
    LET found == {i \in 1..Len(docs[userId]) : docs[userId][i].id = vaultId}
    IN IF found = {} THEN NullRec ELSE docs[userId][CHOOSE i \in found : TRUE]

\* What the user does with the edit form: the title that is typed, whether
\* the password field is retyped, and whether the PIN is kept, retyped or
\* switched off.
EditInput(title, password, pin) ==
    [title |-> title, password |-> password, pin |-> pin]

EditInputs ==
    {EditInput(<<"B">>, "keep", "keep"),
     EditInput(<<"a">>, "change", "keep"),
     EditInput(<<"a">>, "keep", "change"),
     EditInput(<<"B">>, "keep", "remove")}

\* The values of the edit form when it is submitted.
EditForm(input) ==
    [title |-> input.title,
     password |-> IF input.password = "keep" THEN ui.edit.password ELSE "secret2",
     usePin |-> IF input.pin = "keep" THEN ui.edit.pin # "" ELSE input.pin = "change",
     newPin |-> IF input.pin = "change" THEN "5678" ELSE ui.edit.pin,
     verifyPin |-> ui.edit.pin]

\* Mutant: the edit is written without its checks.
editVaultCall_Unchecked(vaultId, updated, original, n, form) ==
    {NewOp("edit", n, vaultId, "updateVault",
           [update |-> [title |-> updated.title], title |-> updated.title,
            samePassword |-> TRUE, samePin |-> TRUE,
            password |-> updated.password, pin |-> updated.pin],
           form)}

\* The starting part of editVaultWithHistory(vaultId, updated, original):
\* the suspended run, or nothing when it throws.
editVaultCall(vaultId, updated, original, n, form) ==
    IF EditCanPrepare(authUser, currentEncryptionKey, original)
    THEN {NewOp("edit", n, vaultId, "updateVault",
                [update |-> prepareEditVaultData(currentEncryptionKey, updated,
                                                 original, n),
                 title |-> updated.title,
                 samePassword |-> updated.password = original.password,
                 samePin |-> updated.pin = original.pin,
                 password |-> updated.password, pin |-> updated.pin],
                form)}
    ELSE {}

\* The error editVaultWithHistory throws.
EditError(user, key, original) ==
    IF user = Null THEN "EditNoUser"
    ELSE IF key = NullRec THEN "EditNoKey"
    ELSE "EditNoRecord"

\* handleEditVaultSubmit: it returns silently when the record is not in the
\* cache, checks the current PIN and calls editVaultWithHistory.  Its submit
\* button stays disabled until the save, the fetch included, is over.
handleEditVaultSubmit(input) ==
    /\ nOps < MaxOps
    /\ ui.edit.shown
    /\ \A o \in ops : ~(o.kind = "edit" /\ o.form)
    /\ \A f \in fetches : f.id[1] # 4
    /\ nOps' = nOps + 1
    /\ LET originalVault == getVaultById(vaultsCache, ui.edit.id)
           form == EditForm(input)
           finalPinValue ==
               IF form.usePin
               THEN (IF ~Falsy(form.newPin) THEN form.newPin ELSE originalVault.pin)
               ELSE Null
           updated ==
               [title |-> form.title,
                password |-> IF ~Falsy(form.password) THEN form.password
                             ELSE originalVault.password,
                pin |-> finalPinValue]
       IN IF authUser = Null \/ ui.edit.id = Null \/ originalVault = NullRec
          THEN /\ lastOp' = "EditFormNoRecord"
               /\ UNCHANGED ops
          ELSE IF /\ ~Falsy(originalVault.pin) /\ form.usePin
                  /\ ~validatePin(vaultsCache, form.verifyPin, ui.edit.id)
          THEN /\ lastOp' = "EditFormWrongPin"
               /\ UNCHANGED ops
          ELSE IF form.usePin /\ Falsy(finalPinValue)
          THEN /\ lastOp' = "EditFormNoPin"
               /\ UNCHANGED ops
          ELSE /\ ops' = ops \cup editVaultCall(ui.edit.id, updated, originalVault,
                                                nOps + 1, TRUE)
               /\ lastOp' = IF EditCanPrepare(authUser, currentEncryptionKey,
                                              originalVault)
                            THEN "EditCalled"
                            ELSE EditError(authUser, currentEncryptionKey,
                                           originalVault)
    /\ UNCHANGED <<vaultDocs, vaultsCache, fetches, historyDocs, ui, audit>>
    /\ OpFrame

\* handleEditVaultCancel.
handleEditVaultCancel ==
    /\ ui.edit.shown
    /\ ui' = [ui EXCEPT !.edit = ClosedEdit]
    /\ lastOp' = "EditCancel"
    /\ UNCHANGED <<ops, nOps>>
    /\ UiFrame

\* The ids a caller can name: those of the store and one that never existed.
CallerIds == {"v1", "v2", "v9"}

\* editVaultWithHistory called by a caller other than the edit form, with
\* the record getVaultById returns; the PIN reset flows are such callers and
\* leave master-protected records alone.
EditVaultCall(vaultId, newPin) ==
    /\ nOps < MaxOps
    /\ nOps' = nOps + 1
    /\ LET vault == getVaultById(vaultsCache, vaultId)
           updated == [title |-> IF vault = NullRec THEN <<"a">> ELSE vault.title,
                       password |-> IF vault = NullRec THEN "secret" ELSE vault.password,
                       pin |-> newPin]
       IN /\ vault # NullRec => ~vault.isMasterProtected
          /\ ops' = ops \cup editVaultCall(vaultId, updated, vault, nOps + 1, FALSE)
          /\ lastOp' = IF EditCanPrepare(authUser, currentEncryptionKey, vault)
                       THEN "EditCalled"
                       ELSE EditError(authUser, currentEncryptionKey, vault)
    /\ UNCHANGED <<vaultDocs, vaultsCache, fetches, historyDocs, ui, audit>>
    /\ OpFrame

\* updateVault rejects (the document may be gone): the edit rethrows.
EditUpdateFail(o) ==
    /\ o \in ops /\ o.kind = "edit" /\ o.pc = "updateVault"
    /\ ops' = ops \ {o}
    /\ lastOp' = "EditWriteFailed"
    /\ UNCHANGED <<vaultDocs, vaultsCache, fetches, historyDocs, ui, audit, nOps>>
    /\ OpFrame

\* updateVault returns; addHistory is awaited next.
EditUpdateOk(o) ==
    /\ o \in ops /\ o.kind = "edit" /\ o.pc = "updateVault"
    /\ StoredDoc(vaultDocs, o.uid, o.id) # NullRec
    /\ vaultDocs' = updateVault(vaultDocs, o.uid, o.id, o.data.update)
    /\ ops' = (ops \ {o}) \cup {[o EXCEPT !.pc = "addHistory"]}
    /\ lastOp' = "EditWritten"
    /\ audit' = [audit EXCEPT !.wrote = @ \cup {[id |-> o.id, n |-> o.n]}]
    /\ UNCHANGED <<vaultsCache, fetches, historyDocs, ui, nOps>>
    /\ OpFrame

\* addHistory returns or rejects after an edit; after a successful edit the
\* form goes on to fetchAndDecryptVaults.
EditHistoryReturn(o, rejected) ==
    /\ o \in ops /\ o.kind = "edit" /\ o.pc = "addHistory"
    /\ ops' = ops \ {o}
    /\ historyDocs' = IF rejected THEN historyDocs
                      ELSE addHistory(historyDocs, "edited", o.id, o.data.title)
    /\ fetches' = IF ~rejected /\ o.form /\ FetchCanStart(authUser, currentEncryptionKey)
                  THEN fetches \cup {NewFetch(<<4, o.n>>, authUser)}
                  ELSE fetches
    /\ audit' = IF rejected THEN audit
                ELSE [audit EXCEPT !.edited = @ \cup
                         {[id |-> o.id, n |-> o.n, title |-> o.data.title,
                           password |-> o.data.password, pin |-> o.data.pin]}]
    /\ lastOp' = IF rejected THEN "EditHistoryFailed" ELSE "EditDone"
    /\ UNCHANGED <<vaultDocs, vaultsCache, ui, nOps>>
    /\ OpFrame

\* ------------------------------------------------- the vault page in use
\* What is typed into the add form (TRUE) and what other callers pass to
\* addVaultWithHistory (FALSE).
AddInputs ==
    {<<PlaintextData(<<"a">>, "secret", "1234", FALSE, Null), TRUE>>,
     <<PlaintextData(<<"B">>, "secret", Null, FALSE, Null), TRUE>>,
     <<PlaintextData(<<"a">>, "secret", "1234", TRUE, "Sesame1!"), TRUE>>,
     <<PlaintextData(<<"B">>, "secret", Null, TRUE, "short"), TRUE>>,
     <<PlaintextData(<<"B">>, "secret", Null, TRUE, ""), FALSE>>,
     <<PlaintextData(<<"a">>, "secret", Null, TRUE, Null), FALSE>>}

\* What is typed into the PIN and master-password prompts.
PinInputs == {"1234", "0000"}

MasterInputs == {"Sesame1!", "wrong", ""}

\* The cache a completed fetch leaves for the documents of a user.
FetchedCache(key, docs, userId) ==
    LET raw == getVaults(docs, userId)
    IN FetchAssign([i \in 1..Len(raw) |-> DecryptVault(key, raw[i])])

\* The documents of alice in the store: a record with a PIN, a
\* master-protected record and a record whose PIN bytes were altered.
InitOpsDocs ==
    [u \in Users |->
        IF u = "alice"
        THEN <<VaultDoc("v1", <<"a">>, "plain"), VaultDoc("v2", <<"B">>, "master"),
               VaultDoc("v3", <<"a">>, "badPin")>>
        ELSE <<>>]

\* alice is signed in on the vault page; her key is installed and her
\* vaults are fetched, or her key is not installed.
InitOps ==
    /\ authUser = "alice"
    /\ profiles = InitProfiles(NullRec)
    /\ vaultDocs = InitOpsDocs
    /\ temporaryLoginPassword = Null
    /\ currentEncryptionKey \in {AliceKey, NullRec}
    /\ vaultsCache = IF currentEncryptionKey = NullRec THEN <<>>
                     ELSE FetchedCache(currentEncryptionKey, vaultDocs, authUser)
    /\ login = IdleLogin
    /\ signOutPending = 0
    /\ listeners = {}
    /\ fetches = {}
    /\ mainNavShown = TRUE
    /\ timers = IF currentEncryptionKey = NullRec THEN NoTimers ELSE RunningTimers
    /\ booted = TRUE
    /\ nLogins = 0
    /\ nLogoutClicks = 0
    /\ nFetches = 0
    /\ deriveCalls = [n \in 0..MaxLogins |-> 0]
    /\ lastOp = "Init"
    /\ ops = {}
    /\ historyDocs = <<>>
    /\ ui = ClosedOverlays
    /\ audit = NoAudit
    /\ nOps = 0
    /\ AccountsIdle
    /\ CryptoIdle

NextOps ==
    \/ \E call \in AddInputs : AddVaultCall(call[1], call[2])
    \/ \E o \in ops : AddVaultFail(o)
    \/ \E o \in ops : AddVaultOk(o)
    \/ \E o \in ops : AddHistoryFail(o)
    \/ \E o \in ops : AddHistoryOk(o)
    \/ \E id \in CallerIds : ClickDelete(id)
    \/ \E id \in CallerIds \cup {NewIds[1]} : ClickViewMaster(id)
    \/ \E id \in CallerIds : ClickEdit(id)
    \/ \E pin \in PinInputs : handlePinSubmit(pin)
    \/ handlePinCancel
    \/ \E entered \in MasterInputs : handleMasterPasswordSubmit(entered)
    \/ MasterCancelClick
    \/ \E o \in ops : UnlockReturn(o)
    \/ \E o \in ops : DeleteDocFail(o)
    \/ \E o \in ops : DeleteDocOk(o)
    \/ \E o \in ops, rejected \in BOOLEAN : DeleteHistoryReturn(o, rejected)
    \/ \E input \in EditInputs : handleEditVaultSubmit(input)
    \/ handleEditVaultCancel
    \/ \E id \in {"v1", "v9"}, pin \in {Null, "5678"} : EditVaultCall(id, pin)
    \/ \E o \in ops : EditUpdateFail(o)
    \/ \E o \in ops : EditUpdateOk(o)
    \/ \E o \in ops, rejected \in BOOLEAN : EditHistoryReturn(o, rejected)
    \/ \E f \in fetches : FetchReadFail(f)
    \/ \E f \in fetches : FetchRead(f)
    \/ \E f \in fetches : FetchDecryptNext(f)

SpecOps == InitOps /\ [][NextOps]_vars

\* ================================================================== claims
\* The elements of a sequence.
Range(seq) == {seq[i] : i \in 1..Len(seq)}

\* The ids of the records of a list, in order.
Ids(list) == [i \in 1..Len(list) |-> list[i].id]

\* C1: immediately after setVaultEncryptionKey(null) the cache is empty and
\* the key reference is null, whatever the cache held before.
C1_ClearEmptiesCache ==
    lastOp \in {"ClearNonEmpty", "ClearEmpty"} =>
        /\ vaultsCache = <<>>
        /\ currentEncryptionKey = NullRec

\* C1 witness: the key was cleared while the cache held records.
C1_Witness == lastOp = "ClearNonEmpty"

\* C8 as stated: a fetch called with no key installed always fails with the
\* key-unavailable error, issues no store read and leaves the cache alone.
C8_Original ==
    [][(VaultFetchCall /\ currentEncryptionKey = NullRec) =>
           /\ lastOp' = "FetchNoKey"
           /\ fetches' = fetches
           /\ vaultsCache' = vaultsCache]_vars

\* C8 amended: a fetch called with no key installed fails before any store
\* read is issued and leaves the cache unchanged; the error is the
\* key-unavailable error when a user is signed in and the not-logged-in
\* error when nobody is.
C8_FetchWithoutKeyFails ==
    [][(VaultFetchCall /\ currentEncryptionKey = NullRec) =>
           /\ lastOp' = IF authUser = Null THEN "FetchNoUser" ELSE "FetchNoKey"
           /\ fetches' = fetches
           /\ vaultsCache' = vaultsCache]_vars

\* C8 witness: a signed-in caller's fetch failed for lack of a key.
C8_Witness == lastOp = "FetchNoKey" /\ authUser # Null

\* A non-master document one of whose present fields does not decrypt.
FailsToDecrypt(key, v) ==
    \/ FieldPresent(v.encryptedPassword) /\ ~FieldDecrypts(key, v.encryptedPassword)
    \/ FieldPresent(v.encryptedPin) /\ ~FieldDecrypts(key, v.encryptedPin)

\* The cache record r is what the spec prescribes for the non-master stored
\* document v under key.
RecordAsSpecified(key, v, r) ==
    /\ r.id = v.id
    /\ ~v.isMasterProtected =>
          IF FailsToDecrypt(key, v)
          THEN /\ r.decryptionError
               /\ r.password = Null
               /\ r.pin = Null
               /\ r.title = v.title \o <<DecryptionFailedSuffix>>
          ELSE /\ ~r.decryptionError
               /\ r.title = v.title
               /\ r.password = base64ToUint8Array(v.encryptedPassword.ciphertext).pt
               /\ r.pin = IF v.encryptedPin = NullRec THEN Null
                          ELSE base64ToUint8Array(v.encryptedPin.ciphertext).pt

\* What one decryption step of fetch f must do: exactly one record is added
\* for the document, as prescribed; the records made before are kept; and on
\* the last document the cache holds one record per document read.
C9_Step(f) ==
    LET v == Head(f.raw)
        outAfter == IF Tail(f.raw) = <<>> THEN vaultsCache'
                    ELSE (CHOOSE g \in fetches' : g.id = f.id).out
    IN /\ Len(outAfter) = Len(f.out) + 1
       /\ Cardinality({i \in 1..Len(outAfter) : outAfter[i].id = v.id}) = 1
       /\ \A r \in Range(outAfter) :
             r.id = v.id => RecordAsSpecified(currentEncryptionKey, v, r)
       /\ Range(f.out) \subseteq Range(outAfter)

\* A fetch in its loop has made one record for each document it has passed.
C9_OnePerDocument ==
    \A f \in fetches :
        f.pc = "decrypt" => Ids(f.out) \o Ids(f.raw) = Ids(getVaults(vaultDocs, f.uid))

\* C9: a fetch yields exactly one cache record per stored record; a
\* non-master record that fails to decrypt is flagged, with null password
\* and pin and the suffixed title, and every other record is decrypted as
\* if the failing one were absent: the fetch does not fail.
C9_PartialFailureIsolation ==
    /\ []C9_OnePerDocument
    /\ [][\A f \in fetches : FetchDecryptNext(f) => C9_Step(f)]_vars

\* C9 witness: a fetch finished with a flagged record next to a decrypted one.
C9_Witness ==
    /\ lastOp = "FetchDone"
    /\ \E r \in Range(vaultsCache) : r.decryptionError
    /\ \E r \in Range(vaultsCache) :
          ~r.decryptionError /\ ~r.isMasterProtected /\ r.password # Null

\* C10 as stated: every cache record that is not master-protected has a
\* non-null password.
C10_Original ==
    \A r \in Range(vaultsCache) : ~r.isMasterProtected => r.password # Null

\* C10 amended: every cache record that is neither master-protected nor
\* flagged decryptionError has a non-null plaintext password.
C10_UnflaggedHasPassword ==
    \A r \in Range(vaultsCache) :
        (~r.isMasterProtected /\ ~r.decryptionError) => r.password # Null

\* C10 witness: the cache holds a decrypted record and a flagged one.
C10_Witness ==
    /\ \E r \in Range(vaultsCache) : ~r.isMasterProtected /\ ~r.decryptionError
    /\ \E r \in Range(vaultsCache) : ~r.isMasterProtected /\ r.decryptionError

\* C2: whenever no session key is installed the cache is empty, also when a
\* fetch that started under a key finishes after the key was cleared.
C2_NoKeyNoCache == currentEncryptionKey = NullRec => vaultsCache = <<>>

\* C3: whenever the vault module holds a key, somebody is signed in and that
\* user's email is verified.
C3_KeyOnlyWhileSignedIn ==
    currentEncryptionKey # NullRec => (authUser # Null /\ EmailVerified(authUser))

\* C4: for each login deriveKey is called at most once, counted over both
\* auth-state listeners.
C4_DerivedOncePerLogin == \A n \in 1..MaxLogins : deriveCalls[n] <= 1

\* A login is still being processed: logInUser has not returned, or a
\* listener run that a login started has not finished.
LoginInProgress == login.pc = "auth" \/ listeners # {}

LoggedOut ==
    /\ authUser = Null
    /\ currentEncryptionKey = NullRec
    /\ vaultsCache = <<>>

\* The provider reports a verified user while no login password is held.
C6_Event ==
    \/ InitialAuthEvent /\ NoPasswordEvent(authUser, temporaryLoginPassword)
    \/ /\ LoginSignedIn
       /\ authUser # login.user
       /\ NoPasswordEvent(login.user, temporaryLoginPassword)

SaltMissing(u) ==
    IF profiles[u] = NullRec THEN TRUE ELSE profiles[u].salt = NullRec

\* C7: when the profile of the logged-in user is missing or has no salt, the
\* listener derives and installs no key, sets the vault key to null, clears
\* the temporary password and calls logOutUser.
C7_MissingSaltFails ==
    [][\A i \in listeners :
          (ListenerProfileReturn(i, FALSE) /\ SaltMissing(i.user)) =>
              /\ deriveCalls' = deriveCalls
              /\ i \notin listeners'
              /\ \A j \in listeners' : j \in listeners
              /\ currentEncryptionKey' = NullRec
              /\ temporaryLoginPassword' = Null
              /\ signOutPending' = signOutPending + 1]_vars

\* C7 witness: a listener found the profile incomplete.
C7_Witness == lastOp = "ProfileIncomplete" /\ signOutPending > 0

\* ------------------------------------------------------------------ C11
\* The record a fetch step has just pushed for the document it decrypted:
\* the last one of the local list, or, after the last document, the cache
\* record of that document.
PushedRecord(f) ==
    IF Tail(f.raw) = <<>>
    THEN CHOOSE r \in Range(vaultsCache') : r.id = Head(f.raw).id
    ELSE LET g == CHOOSE h \in fetches' : h.id = f.id
         IN g.out[Len(g.out)]

\* Every fetch step that handles a master-protected document pushes a record
\* with no password, no PIN and no decryption-error flag.
C11_FetchStep ==
    \A f \in fetches :
        (FetchDecryptNext(f) /\ Head(f.raw).isMasterProtected)
            => /\ PushedRecord(f).password = Null
               /\ PushedRecord(f).pin = Null
               /\ ~PushedRecord(f).decryptionError

\* A master-protected cache record carries a password only if the right
\* master password was submitted for it since the cache was last rebuilt.
C11_PasswordOnlyAfterUnlock ==
    \A r \in Range(vaultsCache) :
        (r.isMasterProtected /\ r.password # Null) => r.id \in audit.unlocked

\* C11: a fetch places every master-protected record in the cache with
\* password null and PIN null and never flags it as a decryption error, and
\* such a record has a non-null password only if a submission of its master
\* password succeeded since the last fetch that rebuilt the cache.
C11_MasterLockedUntilUnlocked ==
    [][C11_FetchStep]_vars /\ []C11_PasswordOnlyAfterUnlock

\* A master-protected record of the cache shows its password after the
\* master password was accepted.
C11_Witness ==
    /\ lastOp = "Unlocked"
    /\ \E r \in Range(vaultsCache) :
           r.isMasterProtected /\ r.password = "secret" /\ r.id \in audit.unlocked

\* ------------------------------------------------------------------ C12
\* The ids of the documents a fetch read: those it has decrypted and those
\* it has still to decrypt.
FetchReadIds(f) == Ids(f.out) \o Ids(f.raw)

\* One step of a fetch: the cache is what it was, or the fetch has ended and
\* the cache holds exactly one record for each document the fetch read.
C12_Step ==
    \A f \in fetches :
        /\ FetchReadFail(f) => vaultsCache' = vaultsCache
        /\ (FetchRead(f) \/ FetchDecryptNext(f))
              => \/ vaultsCache' = vaultsCache
                 \/ /\ ~(\E g \in fetches' : g.id = f.id)
                    /\ Len(vaultsCache') = Len(FetchReadIds(f))
                    /\ Range(Ids(vaultsCache')) = Range(FetchReadIds(f))

\* C12: while a fetch runs the cache is either the complete earlier list or
\* the complete newly decrypted list, never a partly built one, and a failed
\* store read leaves the cache as it was.
C12_CacheNeverPartial == [][C12_Step]_vars

\* A fetch is halfway through its documents while the cache still holds the
\* complete earlier list.
C12_Witness ==
    /\ lastOp = "FetchStep"
    /\ \E f \in fetches : f.out # <<>> /\ f.raw # <<>>
                          /\ Len(vaultsCache) = Len(f.out) + Len(f.raw)

\* ------------------------------------------------------------------ C13
\* The list is in ascending order of its cached titles, as localeCompare
\* orders them.
SortedByTitle(list) ==
    \A i, j \in 1..Len(list) :
        i < j => ~LocaleLess(list[j].title, list[i].title)

\* C13: after every fetch that ended, and after any later deleteVault or
\* master-password unlock, the cache is in ascending order of the cached
\* title, the " (Decryption Failed)" suffix included.
C13_CacheSortedByTitle == SortedByTitle(vaultsCache)

\* A record was deleted from a cache that still holds a record with the
\* suffix and a record whose title sorts differently by code point.
C13_Witness ==
    /\ lastOp = "Deleted"
    /\ Len(vaultsCache) >= 2
    /\ \E r \in Range(vaultsCache) : r.decryptionError
    /\ \E r \in Range(vaultsCache) : r.title = <<"B">>

\* ------------------------------------------------------------------ C14
\* The document the store holds under the id of the add o.
WrittenDoc(o) == StoredDoc(vaultDocs', o.uid, o.id)

\* No field of the document carries the password, the PIN or the master
\* password in plaintext.
NoPlaintextFields(doc) ==
    /\ DOMAIN doc \cap {"password", "pin", "masterPassword"} = {}
    /\ \A k \in {"encryptedPassword", "encryptedPin", "masterEncryptedPayload"} :
           doc[k] # NullRec => DOMAIN doc[k] = {"iv", "ciphertext"}

\* The document an add has just written, as its protection requires it.
C14_Step ==
    \A o \in ops :
        AddVaultOk(o) =>
            /\ NoPlaintextFields(WrittenDoc(o))
            /\ WrittenDoc(o).isMasterProtected = o.data.plain.isMasterProtected
            /\ IF o.data.plain.isMasterProtected
               THEN /\ WrittenDoc(o).encryptedPassword = NullRec
                    /\ WrittenDoc(o).encryptedPin = NullRec
                    /\ WrittenDoc(o).masterSalt # NullRec
                    /\ WrittenDoc(o).masterEncryptedPayload # NullRec
               ELSE /\ WrittenDoc(o).masterSalt = NullRec
                    /\ WrittenDoc(o).masterEncryptedPayload = NullRec

\* C14: the document addVaultWithHistory writes for a master-protected record
\* has encryptedPassword null, encryptedPin null, a master salt and a master
\* payload and no plaintext password, PIN or master password; the document
\* of any other record has masterSalt null and masterEncryptedPayload null
\* and no plaintext password or PIN.
C14_WrittenDocumentShape == [][C14_Step]_vars

\* A master-protected document was written for a record that was submitted
\* with a password and a PIN.
C14_Witness ==
    /\ lastOp = "AddWritten"
    /\ \E o \in ops :
           /\ o.kind = "add" /\ o.pc = "addHistory"
           /\ o.data.plain.isMasterProtected
           /\ o.data.plain.password # Null /\ o.data.plain.pin # Null
           /\ StoredDoc(vaultDocs, o.uid, o.id).masterEncryptedPayload # NullRec

\* ------------------------------------------------------------------ C15
\* C15: in every state of the store, after any sequence of add, unlock, edit
\* and PIN-reset operations, every stored document with isMasterProtected
\* true has encryptedPassword null and encryptedPin null.
C15_MasterDocsHaveNoSessionCiphertext ==
    \A u \in Users : \A doc \in Range(vaultDocs[u]) :
        doc.isMasterProtected
            => doc.encryptedPassword = NullRec /\ doc.encryptedPin = NullRec

\* ------------------------------------------------------------------ C16
\* The call fails before anything is written: no document, no history
\* entry, no call left in flight that could write, and the cache as it was.
AddWritesNothing ==
    /\ ops' = ops
    /\ vaultDocs' = vaultDocs
    /\ historyDocs' = historyDocs
    /\ vaultsCache' = vaultsCache
    /\ fetches' = fetches

\* A call of addVaultWithHistory that lacks what its record needs.
C16_Step ==
    \A call \in AddInputs :
        LET pd == call[1]
        IN (/\ AddVaultCall(pd, call[2])
            /\ \/ pd.isMasterProtected /\ pd.masterPassword \in {"", Null}
               \/ ~pd.isMasterProtected /\ currentEncryptionKey = NullRec)
           => /\ AddWritesNothing
              /\ lastOp' \in {"AddNoMasterPassword", "AddNoKey", "AddFormRejected"}

\* C16: addVaultWithHistory for a master-protected record with an empty or
\* missing master password fails before any store write (no document, no
\* history entry, cache unchanged), and so does an add of any other record
\* while no session key is installed.
C16_AddFailsBeforeWrite == [][C16_Step]_vars

\* An add of a master-protected record was refused for want of a master
\* password while the session key was installed.
C16_Witness ==
    /\ lastOp = "AddNoMasterPassword"
    /\ currentEncryptionKey # NullRec
    /\ nOps > 0
    /\ historyDocs = <<>>

\* ------------------------------------------------------------------ C17
\* The cache has a record with the id of the add o that carries the
\* submitted password and PIN.
CacheHasPlaintextOf(cache, id, password, pin) ==
    \E r \in Range(cache) : r.id = id /\ r.password = password /\ r.pin = pin

AddFetchEnds(f) ==
    /\ f.id[1] = 3
    /\ FetchDecryptNext(f)
    /\ Tail(f.raw) = <<>>

\* addVaultWithHistory leaves the cache alone; the fetch the form runs next
\* brings the record in.
C17_Step ==
    /\ \A o \in ops :
           (AddVaultOk(o) \/ AddHistoryOk(o)) => vaultsCache' = vaultsCache
    /\ \A f \in fetches : \A a \in audit.added :
           (AddFetchEnds(f) /\ a.id = NewIds[f.id[2]]
                /\ StoredDoc(vaultDocs, f.uid, a.id) # NullRec)
           => /\ IF a.isMasterProtected
                 THEN CacheHasPlaintextOf(vaultsCache', a.id, Null, Null)
                 ELSE CacheHasPlaintextOf(vaultsCache', a.id, a.password, a.pin)
              /\ SortedByTitle(vaultsCache')

C18_Step ==
    /\ \A call \in AddInputs :
           AddVaultCall(call[1], call[2]) => vaultsCache' = vaultsCache
    /\ \A o \in ops :
           AddVaultFail(o) =>
               /\ vaultsCache' = vaultsCache
               /\ ~(\E r \in Range(vaultsCache') : r.id = o.id)
               /\ vaultDocs' = vaultDocs
               /\ historyDocs' = historyDocs
               /\ ~(\E p \in ops' : p.n = o.n)
               /\ fetches' = fetches
               /\ audit' = audit

\* C18: when the store write of an add fails the cache is exactly what it
\* was before the add was attempted, with no optimistic insert, and the
\* error propagates to the caller.
C18_FailedAddLeavesCache == [][C18_Step]_vars

\* The store rejected the write of an add while the cache was loaded.
C18_Witness ==
    /\ lastOp = "AddWriteFailed"
    /\ Len(vaultsCache) = Len(InitOpsDocs["alice"])
    /\ ops = {}

\* ------------------------------------------------------------------ C19
\* The write of an edit leaves a field that was submitted unchanged out of
\* the update, and the stored ciphertext of that field is what it was.
FieldKept(o, field) ==
    /\ field \notin DOMAIN o.data.update
    /\ StoredDoc(vaultDocs', o.uid, o.id)[field]
           = StoredDoc(vaultDocs, o.uid, o.id)[field]

C19_Step ==
    \A o \in ops :
        EditUpdateOk(o) =>
            /\ o.data.samePassword => FieldKept(o, "encryptedPassword")
            /\ o.data.samePin => FieldKept(o, "encryptedPin")

\* C19: an edit whose submitted password equals the original cached password
\* sends an update without encryptedPassword, an edit whose submitted PIN
\* equals the original PIN sends one without encryptedPin, and the stored
\* ciphertext of the unchanged field is identical before and after the edit.
C19_UnchangedFieldsNotReencrypted == [][C19_Step]_vars

\* An edit that kept the password and changed the PIN was written: the
\* stored password ciphertext is the one the record started with.
C19_Witness ==
    /\ lastOp = "EditWritten"
    /\ \E o \in ops :
           /\ o.kind = "edit" /\ o.pc = "addHistory"
           /\ o.data.samePassword /\ ~o.data.samePin
           /\ StoredDoc(vaultDocs, o.uid, o.id).encryptedPassword
                  = StoredDoc(InitOpsDocs, o.uid, o.id).encryptedPassword
           /\ StoredDoc(vaultDocs, o.uid, o.id).encryptedPassword # NullRec
           /\ StoredDoc(vaultDocs, o.uid, o.id).encryptedPin
                  # StoredDoc(InitOpsDocs, o.uid, o.id).encryptedPin

\* ------------------------------------------------------------------ C20
\* A call of editVaultWithHistory for an id the cache does not hold.
EditOfAbsentRecord(vaultId, newPin) ==
    /\ EditVaultCall(vaultId, newPin)
    /\ getVaultById(vaultsCache, vaultId) = NullRec

\* The edit wrote nothing and left no call in flight that could write.
EditWritesNothing ==
    /\ ops' = ops
    /\ vaultDocs' = vaultDocs
    /\ historyDocs' = historyDocs

\* C20 as stated: an edit of a record whose id is absent from the cache
\* fails with a record-not-found error and performs no store update and no
\* history write.
C20_Original ==
    [][\A vaultId \in CallerIds, newPin \in {Null, "5678"} :
          EditOfAbsentRecord(vaultId, newPin)
              => EditWritesNothing /\ lastOp' = "EditNoRecord"]_vars

\* The error of the failed edit: the checks for the signed-in user and for
\* the session key come before the check for the original record.
C20_Step ==
    /\ \A vaultId \in CallerIds, newPin \in {Null, "5678"} :
           EditOfAbsentRecord(vaultId, newPin)
               => /\ EditWritesNothing
                  /\ lastOp' = IF authUser = Null THEN "EditNoUser"
                               ELSE IF currentEncryptionKey = NullRec
                               THEN "EditNoKey"
                               ELSE "EditNoRecord"
    /\ \A input \in EditInputs :
           (handleEditVaultSubmit(input)
                /\ getVaultById(vaultsCache, ui.edit.id) = NullRec)
               => EditWritesNothing /\ lastOp' = "EditFormNoRecord"

\* C20 (amended): an edit of a record whose id is absent from the cache
\* performs no store update and no history write; editVaultWithHistory fails
\* with the record-missing error when a user is signed in and the session key
\* is installed, with the not-logged-in or the key-unavailable error
\* otherwise, and the edit form returns without calling it.
C20_EditOfAbsentRecordFails == [][C20_Step]_vars

\* An edit of an id the loaded cache does not hold was refused for the
\* missing record.
C20_Witness ==
    /\ lastOp = "EditNoRecord"
    /\ currentEncryptionKey # NullRec
    /\ vaultsCache # <<>>
    /\ ops = {} /\ historyDocs = <<>>

\* ------------------------------------------------------------------ C22
\* A step that starts a deleteVault leaves the record in the cache: the
\* store is asked first.
DeleteStartsWithStore ==
    \A p \in ops' \ ops :
        (p.kind = "delete" /\ p.pc = "deleteDoc")
            => (getVaultById(vaultsCache, p.id) # NullRec
                    => getVaultById(vaultsCache', p.id) # NullRec)

C22_Step ==
    /\ DeleteStartsWithStore
    /\ \A o \in ops :
           /\ DeleteDocFail(o) =>
                  /\ vaultsCache' = vaultsCache
                  /\ vaultDocs' = vaultDocs
                  /\ historyDocs' = historyDocs
                  /\ ~(\E p \in ops' : p.kind = "delete" /\ p.n = o.n)
           /\ DeleteDocOk(o) =>
                  /\ StoredDoc(vaultDocs', o.uid, o.id) = NullRec
                  /\ getVaultById(vaultsCache', o.id) = NullRec
                  /\ \A r \in Range(vaultsCache) :
                         r.id # o.id => r \in Range(vaultsCache')

\* C22: deleteVault removes the record from the store first and from the
\* cache only after the store deletion succeeded; when the store deletion
\* fails the cache is unchanged and the error propagates to the caller.
C22_DeleteStoreThenCache == [][C22_Step]_vars

\* The store refused a deletion: the record is still in the cache and in
\* the store.
C22_Witness ==
    /\ lastOp = "DeleteFailed"
    /\ getVaultById(vaultsCache, "v1") # NullRec
    /\ StoredDoc(vaultDocs, "alice", "v1") # NullRec
    /\ ~(\E o \in ops : o.kind = "delete")
    /\ nOps = 1

\* ------------------------------------------------------------------ C21
\* The fetch that handleEditVaultSubmit starts after its edit ends with this
\* step.
EditFetchEnds(f) ==
    /\ f.id[1] = 4
    /\ FetchDecryptNext(f)
    /\ Tail(f.raw) = <<>>

\* The record of the cache shows what the edit e submitted.
ShowsEdit(cache, e) ==
    LET r == getVaultById(cache, e.id)
    IN /\ r # NullRec
       /\ ~r.decryptionError
       /\ r.title = e.title
       /\ r.password = e.password
       /\ r.pin = e.pin
       /\ vaultHasPin(cache, e.id) = (e.pin # Null)

C21_Step ==
    \A f \in fetches : \A e \in audit.edited :
        (/\ EditFetchEnds(f)
         /\ e.n = f.id[2]
         /\ \A w \in audit.wrote : w.id = e.id => w.n = e.n
         /\ StoredDoc(vaultDocs, f.uid, e.id) # NullRec
         /\ ~StoredDoc(vaultDocs, f.uid, e.id).isMasterProtected)
        => ShowsEdit(vaultsCache', e)

\* C21: after a successful edit of a record that is protected by the session
\* key, the fetch that follows in the same session yields the record with the
\* submitted password and PIN (no PIN when it was removed), and every field
\* that was not changed decrypts to the value it had.  The edit is the one
\* that wrote the record: the document is in the store and no other edit has
\* written to it.
C21_EditThenFetchShowsEdit == [][C21_Step]_vars

\* The fetch after an edit that removed the PIN and kept the password has
\* ended: the record has its old password and no PIN.
C21_Witness ==
    /\ lastOp = "FetchDone"
    /\ \E e \in audit.edited :
           /\ e.id = "v1" /\ e.pin = Null /\ e.password = "secret"
           /\ ShowsEdit(vaultsCache, e)
           /\ StoredDoc(vaultDocs, "alice", "v1").encryptedPin = NullRec

\* ------------------------------------------------------------------ C24
\* The PIN the stored document of a vault carries, Null when it has none:
\* the PIN field of a record under the session key, the PIN inside the
\* payload of a master-protected record.
StoredPin(doc) ==
    IF doc = NullRec THEN Null
    ELSE IF doc.isMasterProtected
    THEN (IF doc.masterEncryptedPayload = NullRec THEN Null
          ELSE base64ToUint8Array(doc.masterEncryptedPayload.ciphertext).pt.pin)
    ELSE (IF doc.encryptedPin = NullRec THEN Null
          ELSE base64ToUint8Array(doc.encryptedPin.ciphertext).pt)

\* The vaults for which this step starts a delete or opens the edit form.
ActedOn ==
    {p.id : p \in {q \in ops' \ ops : q.kind = "delete" /\ q.pc = "deleteDoc"}}
        \cup (IF ui'.edit.shown /\ ~ui.edit.shown THEN {ui'.edit.id} ELSE {})

\* This step is handlePinSubmit for the prompt of the vault, with its PIN.
PinValidatedFor(vaultId) ==
    /\ ui.pin.shown /\ ui.pin.id = vaultId
    /\ \E pin \in PinInputs :
           /\ handlePinSubmit(pin)
           /\ validatePin(vaultsCache, pin, vaultId)

\* C24: for every vault that has a PIN set, the edit and delete actions run
\* only in the step in which handlePinSubmit validated the right PIN of that
\* vault for the prompt that asked for the action; a cancelled or failed
\* prompt never runs the action.
C24_PinGatesActions ==
    [][\A vaultId \in ActedOn :
          StoredPin(StoredDoc(vaultDocs, authUser, vaultId)) # Null
              => PinValidatedFor(vaultId)]_vars

\* ------------------------------------------------------------------ C25
\* The unlock o is for the record that the add a wrote.
UnlockOfAdded(o, a) ==
    /\ UnlockReturn(o)
    /\ a.isMasterProtected
    /\ a.id = o.id

C25_Step ==
    /\ \A f \in fetches : \A a \in audit.added :
           (AddFetchEnds(f) /\ a.isMasterProtected /\ a.id = NewIds[f.id[2]]
                /\ getVaultById(vaultsCache', a.id) # NullRec)
               => /\ getVaultById(vaultsCache', a.id).password = Null
                  /\ getVaultById(vaultsCache', a.id).pin = Null
    /\ \A o \in ops : \A a \in audit.added :
           UnlockOfAdded(o, a) =>
               IF o.data.entered = a.masterPassword
               THEN /\ lastOp' = "Unlocked"
                    /\ MasterPayload(o.data) = [password |-> a.password, pin |-> a.pin]
                    /\ (~o.stale /\ getVaultById(vaultsCache, o.id) # NullRec)
                           => /\ getVaultById(vaultsCache', o.id).password = a.password
                              /\ getVaultById(vaultsCache', o.id).pin = a.pin
               ELSE /\ lastOp' = "UnlockFailed"
                    /\ vaultsCache' = vaultsCache
                    /\ ui' = ui
                    /\ ops' = ops \ {o}

\* C25: a master-protected record added with password p, PIN n and master
\* password m is cached by the fetch with password null; submitting m to the
\* master-password prompt of the record yields exactly p and n; submitting
\* any other password fails, leaves the cached password and PIN as they
\* were and does not run the pending action.
C25_MasterRoundTrip == [][C25_Step]_vars

\* The record that was added with a master password shows the password and
\* the PIN it was added with.
C25_Witness ==
    /\ lastOp = "Unlocked"
    /\ \E a \in audit.added :
           /\ a.isMasterProtected /\ a.pin = "1234"
           /\ getVaultById(vaultsCache, a.id) # NullRec
           /\ getVaultById(vaultsCache, a.id).password = a.password
           /\ getVaultById(vaultsCache, a.id).pin = a.pin

\* ------------------------------------------------------------------ C26
\* The password and the PIN a document under the session key was added
\* with.
AddedPassword(doc) == base64ToUint8Array(doc.encryptedPassword.ciphertext).pt
AddedPin(doc) ==
    IF doc.encryptedPin = NullRec THEN Null
    ELSE base64ToUint8Array(doc.encryptedPin.ciphertext).pt

\* The key the documents of a user were encrypted under when they were
\* added: the account password and the stored salt.
AccountKey(u) == deriveKey(AccountPassword(u), base64ToUint8Array(profiles[u].salt))

\* A fetch of a session that a login with the account password and the
\* stored salt established ends with this step.
SessionFetchEnds(f) ==
    /\ FetchDecryptNext(f)
    /\ Tail(f.raw) = <<>>
    /\ authUser = f.uid
    /\ currentEncryptionKey # NullRec
    /\ signOutPending = 0

\* C26: a record under the session key that was added with password p and
\* PIN n in one session is returned by fetchAndDecryptVaults, in any later
\* session established by a login with the same account password and the
\* same stored salt, with password p and PIN n and without decryptionError.
C26_LaterSessionDecrypts ==
    [][\A f \in fetches :
          SessionFetchEnds(f) =>
              \A doc \in Range(vaultDocs[f.uid]) :
                  (/\ ~doc.isMasterProtected
                   /\ base64ToUint8Array(doc.encryptedPassword.ciphertext).k
                          = AccountKey(f.uid))
                  => LET r == getVaultById(vaultsCache', doc.id)
                     IN /\ r # NullRec
                        /\ ~r.decryptionError
                        /\ r.password = AddedPassword(doc)
                        /\ r.pin = AddedPin(doc)]_vars

\* ------------------------------------------------------------------ C23
\* The ids and the PINs the two functions are asked about.
AskedIds == CallerIds \cup {NewIds[1]}

AskedPins == {"1234", "", Null}

\* The cache, and the cache with an empty PIN in one of its records.
CachesLike(cache) ==
    {cache} \cup {[cache EXCEPT ![i].pin = ""] : i \in 1..Len(cache)}

\* The cache holds a record with the id whose PIN is a PIN.
HoldsRecordWithPin(cache, vaultId) ==
    \E i \in 1..Len(cache) :
        /\ cache[i].id = vaultId
        /\ cache[i].pin # Null
        /\ cache[i].pin # ""

\* The cache holds a record with the id whose PIN is the entered value.
HoldsRecordWithThisPin(cache, enteredPin, vaultId) ==
    \E i \in 1..Len(cache) : cache[i].id = vaultId /\ cache[i].pin = enteredPin

C23_Characterised ==
    \A cache \in CachesLike(vaultsCache), vaultId \in AskedIds :
        /\ vaultHasPin(cache, vaultId) <=> HoldsRecordWithPin(cache, vaultId)
        /\ \A enteredPin \in AskedPins :
              validatePin(cache, enteredPin, vaultId)
                  <=> HoldsRecordWithThisPin(cache, enteredPin, vaultId)
        /\ (\A i \in 1..Len(cache) : cache[i].id # vaultId)
               => /\ ~vaultHasPin(cache, vaultId)
                  /\ \A enteredPin \in AskedPins :
                        ~validatePin(cache, enteredPin, vaultId)

\* C23: vaultHasPin(id) is true exactly when the cache holds a record with
\* that id whose PIN is neither null nor empty (no cached PIN is undefined);
\* validatePin(entered, id) is true exactly when the cache holds a record
\* with that id whose PIN equals the entered value; both are false for an id
\* the cache does not hold; and the steps that call them, a PIN submission
\* and a click that asks for the PIN, leave the cache, the key and the store
\* as they were.
C23_PinFunctions ==
    /\ []C23_Characterised
    /\ [][(\/ \E enteredPin \in PinInputs : handlePinSubmit(enteredPin)
           \/ \E vaultId \in CallerIds : ClickDelete(vaultId))
          => UNCHANGED <<vaultsCache, currentEncryptionKey, vaultDocs>>]_vars

\* A right PIN was accepted and a wrong one rejected while the cache holds a
\* record with a PIN and a record without one.
C23_Witness ==
    /\ lastOp \in {"PinAccepted", "PinRejected"}
    /\ \E i \in 1..Len(vaultsCache) : vaultHasPin(vaultsCache, vaultsCache[i].id)
    /\ \E i \in 1..Len(vaultsCache) : vaultsCache[i].pin = Null
    /\ \E enteredPin \in PinInputs :
          /\ validatePin(vaultsCache, enteredPin, "v1")
          /\ ~validatePin(vaultsCache, enteredPin, "v2")
          /\ ~validatePin(vaultsCache, enteredPin, "v9")

\* ================================================================ accounts
\* Sign-up (script.js) and the profile picture of the settings page.
MaxSignups == 2

MaxPictures == 1

\* generateSalt(): 16 random bytes.
SignupSalts == {"saltC", "saltD"}

\* What is typed into the sign-up form: the email of the identity, the
\* password and its confirmation.
SignupInputs ==
    {<<"carol", "pw1", "pw1">>, <<"carol", "pw1", "pw2">>,
     <<"carol", "short", "short">>, <<"alice", "pw1", "pw1">>}

\* The notifications of the sign-up form and of the picture input.
SignupSuccess == "Signup successful! Please check your email"

SignupNoProfile == "Signup complete, but failed to save profile details."

\* Mutant: setDoc without merge, the document is replaced.
saveUserProfile_Overwrite(store, userId, profileData) ==
    [store EXCEPT ![userId] = profileData @@ [salt |-> NullRec]]

\* saveUserProfile(userId, profileData): setDoc with merge, the fields given
\* are written and the other fields of the document stay; a document that
\* did not exist is created.  A field a document lacks reads as no value.
saveUserProfile(store, userId, profileData) ==
    [store EXCEPT ![userId] =
        profileData @@ (IF @ = NullRec THEN [salt |-> NullRec] ELSE @)]

\* The sign-up form is submitted: the values are validated, the button is
\* disabled and signUpUser is awaited.
SignupSubmit(email, password, confirmPassword) ==
    /\ booted
    /\ ~mainNavShown
    /\ signup.pc = "idle"
    /\ signup.n < MaxSignups
    /\ IF password # confirmPassword
       THEN /\ signup' = [IdleSignup EXCEPT !.n = signup.n + 1,
                                            !.shown = <<"Passwords do not match.">>]
            /\ lastOp' = "SignupInvalid"
       ELSE IF PasswordLength(password) < 6
       THEN /\ signup' = [IdleSignup EXCEPT
                             !.n = signup.n + 1,
                             !.shown = <<"Password must be at least 6 characters long.">>]
            /\ lastOp' = "SignupInvalid"
       ELSE /\ signup' = [pc |-> "signUpUser", user |-> email, salt |-> Null,
                          n |-> signup.n + 1, shown |-> <<>>]
            /\ lastOp' = "SignupSubmit"
    /\ UNCHANGED <<authUser, storeVars, temporaryLoginPassword,
                   currentEncryptionKey, vaultsCache, login, signOutPending,
                   listeners, fetches, mainNavShown, timers, booted, nLogins,
                   nLogoutClicks, nFetches, deriveCalls, opsVars, cryptoVars, deletion, accounts,
                   picture>>

\* signUpUser rejects: the email is registered already or the provider
\* failed before the account was created.  The outer catch shows the error.
SignUpUserFail ==
    /\ signup.pc = "signUpUser"
    /\ signup' = [signup EXCEPT !.pc = "idle",
                     !.shown = <<IF signup.user \in accounts
                                 THEN "This email address is already registered."
                                 ELSE "Signup failed. Please try again.">>]
    /\ lastOp' = "SignupFail"
    /\ UNCHANGED <<authUser, storeVars, temporaryLoginPassword,
                   currentEncryptionKey, vaultsCache, login, signOutPending,
                   listeners, fetches, mainNavShown, timers, booted, nLogins,
                   nLogoutClicks, nFetches, deriveCalls, opsVars, cryptoVars, deletion, accounts,
                   picture>>

\* createUserWithEmailAndPassword succeeds: the account exists and its user
\* is signed in with an unverified email, of which both listeners are
\* notified.  When sendEmailVerification then rejects, the outer catch shows
\* the error; otherwise the salt is generated and saveUserProfile is awaited.
SignUpUserCreated(emailSent, salt) ==
    /\ signup.pc = "signUpUser"
    /\ signup.user \notin accounts
    /\ signOutPending = 0
    /\ accounts' = accounts \cup {signup.user}
    /\ authUser' = signup.user
    /\ SetSession(ListenerClearBranch(
                      AuthChangeClears(ListenerClearBranch(Session))))
    /\ IF emailSent
       THEN /\ signup' = [signup EXCEPT !.pc = "saveUserProfile", !.salt = salt]
            /\ lastOp' = "SignedUp"
       ELSE /\ signup' = [signup EXCEPT !.pc = "idle",
                             !.shown = <<"Signup failed. Please try again.">>]
            /\ lastOp' = "SignupFail"
    /\ UNCHANGED <<storeVars, login, fetches, booted, nLogins, nLogoutClicks,
                   nFetches, deriveCalls, opsVars, cryptoVars, picture,
                   deletion>>

\* saveUserProfile returns to the sign-up handler.  Its rejection is caught
\* by the inner catch, which shows the profile error; the success
\* notification follows in both cases.
SignupProfileReturn(rejected) ==
    /\ signup.pc = "saveUserProfile"
    /\ IF rejected
       THEN /\ signup' = [signup EXCEPT !.pc = "idle",
                             !.shown = <<SignupNoProfile, SignupSuccess>>]
            /\ lastOp' = "SignupNoProfile"
            /\ UNCHANGED profiles
       ELSE /\ profiles' = saveUserProfile(profiles, signup.user,
                               [salt |-> arrayBufferToBase64(signup.salt)])
            /\ signup' = [signup EXCEPT !.pc = "idle", !.shown = <<SignupSuccess>>]
            /\ lastOp' = "SignupDone"
    /\ UNCHANGED <<authUser, vaultDocs, temporaryLoginPassword,
                   currentEncryptionKey, vaultsCache, login, signOutPending,
                   listeners, fetches, mainNavShown, timers, booted, nLogins,
                   nLogoutClicks, nFetches, deriveCalls, opsVars, cryptoVars, deletion, accounts,
                   picture>>

\* handleProfilePictureChange: a file is chosen on the settings page.  The
\* signed-in user and the file are checked, the file is read and
\* saveUserProfile is awaited.
handleProfilePictureChange(validFile) ==
    /\ booted
    /\ mainNavShown
    /\ picture.n < MaxPictures
    /\ IF authUser = Null
       THEN /\ picture' = [picture EXCEPT !.n = @ + 1,
                              !.shown = <<"You must be logged in to change your picture.">>]
            /\ lastOp' = "PictureNoUser"
       ELSE IF ~validFile
       THEN /\ picture' = [picture EXCEPT !.n = @ + 1,
                              !.shown = <<"Invalid file type.">>]
            /\ lastOp' = "PictureInvalid"
       ELSE /\ picture' = [picture EXCEPT !.n = @ + 1,
                              !.runs = @ \cup {[n |-> picture.n + 1,
                                                user |-> authUser]},
                              !.shown = <<"Processing profile picture...">>]
            /\ lastOp' = "PictureChosen"
    /\ UNCHANGED <<authUser, storeVars, temporaryLoginPassword,
                   currentEncryptionKey, vaultsCache, login, signOutPending,
                   listeners, fetches, mainNavShown, timers, booted, nLogins,
                   nLogoutClicks, nFetches, deriveCalls, opsVars, cryptoVars, deletion, accounts,
                   signup>>

\* saveUserProfile returns to the onload callback of the picture.
PictureSaveReturn(r, rejected) ==
    /\ r \in picture.runs
    /\ IF rejected
       THEN /\ picture' = [picture EXCEPT !.runs = @ \ {r},
                              !.shown = <<"Failed to save profile picture. Please try again.">>]
            /\ lastOp' = "PictureFailed"
            /\ UNCHANGED profiles
       ELSE /\ profiles' = saveUserProfile(profiles, r.user, [photoURL |-> "dataUrl"])
            /\ picture' = [picture EXCEPT !.runs = @ \ {r},
                              !.shown = <<"Profile picture updated successfully!">>]
            /\ lastOp' = "PictureSaved"
    /\ UNCHANGED <<authUser, vaultDocs, temporaryLoginPassword,
                   currentEncryptionKey, vaultsCache, login, signOutPending,
                   listeners, fetches, mainNavShown, timers, booted, nLogins,
                   nLogoutClicks, nFetches, deriveCalls, opsVars, cryptoVars, deletion, accounts,
                   signup>>

\* The page after a page load with nobody signed in, or with the session of
\* alice established; alice and bob have signed up, carol has no account.
InitAccount ==
    /\ authUser \in {Null, "alice"}
    /\ profiles = InitProfiles(NullRec)
    /\ vaultDocs = InitVaultDocs
    /\ temporaryLoginPassword = Null
    /\ currentEncryptionKey = IF authUser = Null THEN NullRec ELSE AliceKey
    /\ vaultsCache = IF authUser = Null THEN <<>>
                     ELSE FetchedCache(currentEncryptionKey, vaultDocs, authUser)
    /\ login = IdleLogin
    /\ signOutPending = 0
    /\ listeners = {}
    /\ fetches = {}
    /\ mainNavShown = (authUser # Null)
    /\ timers = IF authUser = Null THEN NoTimers ELSE RunningTimers
    /\ booted = TRUE
    /\ nLogins = 0
    /\ nLogoutClicks = 0
    /\ nFetches = 0
    /\ deriveCalls = [n \in 0..MaxLogins |-> 0]
    /\ lastOp = "Init"
    /\ ops = {}
    /\ historyDocs = <<>>
    /\ ui = ClosedOverlays
    /\ audit = NoAudit
    /\ nOps = 0
    /\ accounts = {"alice", "bob"}
    /\ signup = IdleSignup
    /\ picture = IdlePicture
    /\ deletion = IdleDeletion
    /\ CryptoIdle

\* The sign-up form, the settings page and the Log Out button.
NextAccount ==
    \/ \E c \in SignupInputs : SignupSubmit(c[1], c[2], c[3])
    \/ SignUpUserFail
    \/ \E emailSent \in BOOLEAN, salt \in SignupSalts :
          SignUpUserCreated(emailSent, salt)
    \/ \E rejected \in BOOLEAN : SignupProfileReturn(rejected)
    \/ \E validFile \in BOOLEAN : handleProfilePictureChange(validFile)
    \/ \E r \in picture.runs, rejected \in BOOLEAN : PictureSaveReturn(r, rejected)
    \/ LogoutClick
    \/ SignOutReturn

SpecAccount == InitAccount /\ [][NextAccount]_vars

\* ------------------------------------------------------------------ C27
\* The profile of the identity holds a salt.
SaltStored(store, u) == ~ProfileIncomplete(store[u])

SignupReportedSuccess ==
    /\ signup.pc = "idle"
    /\ \E i \in 1..Len(signup.shown) : signup.shown[i] = SignupSuccess

\* C28: whenever sign-up reports success for a new identity, a salt is
\* stored for that identity, so that the salt check of a later verified
\* login passes and the session key can be derived.
C28_SignupSuccessStoresSalt ==
    SignupReportedSuccess => SaltStored(profiles, signup.user)

\* ============================================================= decryptions
\* decryptData and the decryption of the master-password prompt, called with
\* keys, ivs and bytes that do and do not belong together.
MaxDecryptions == 2

\* The key of the session and the key a wrong password gives.
DecryptKeys == {AliceKey, deriveKey("pw2", "saltA")}

DecryptIvs == {1, 2}

\* A field that was encrypted under the session key with iv 1, as stored
\* and with altered bytes.
DecryptFields == {Ciphertext(AliceKey, 1, "secret", intact) : intact \in BOOLEAN}

\* What the master-password prompt works on: the entered password and the
\* salt and payload of the record, the payload as stored, with altered
\* bytes, or with another iv next to it.
MasterChallenges ==
    {[entered |-> entered,
      masterSalt |-> arrayBufferToBase64("saltM"),
      masterEncryptedPayload |->
          [StoredField(deriveKey("Sesame1!", "saltM"), 3,
                       [password |-> "secret", pin |-> "1234"], intact)
              EXCEPT !.iv = arrayBufferToBase64(iv)]] :
        entered \in {"Sesame1!", "wrong"}, intact \in BOOLEAN, iv \in {3, 4}}

\* The message the catch of handleMasterPasswordSubmit shows.
MasterFailureMessage == "Incorrect Master Password or data corrupted."

\* What is left unchanged by a decryption.
DecryptFrame ==
    UNCHANGED <<authUser, storeVars, temporaryLoginPassword,
                currentEncryptionKey, vaultsCache, login, signOutPending,
                listeners, fetches, mainNavShown, timers, booted, nLogins,
                nLogoutClicks, nFetches, deriveCalls, opsVars, acctVars,
                codec, derivations>>

\* decryptData(key, iv, ciphertext) is called: it returns the plaintext or
\* throws its error.
DecryptDataCall(key, iv, ciphertext) ==
    /\ Len(decryptions) < MaxDecryptions
    /\ LET ok == DecryptOk(key, iv, ciphertext)
       IN /\ decryptions' = Append(decryptions,
                 [fn |-> "decryptData", args |-> <<key, iv, ciphertext>>, ok |-> ok,
                  cause |-> IF ok THEN "none" ELSE FailureCause(key, iv, ciphertext),
                  out |-> IF ok THEN <<decryptData(key, iv, ciphertext)>>
                          ELSE decryptDataError(key, iv, ciphertext)])
          /\ lastOp' = IF ok THEN "Decrypted" ELSE "DecryptFailed"
    /\ DecryptFrame

\* The try block of handleMasterPasswordSubmit for a record with a payload:
\* deriveKey, decryptData and JSON.parse; the catch shows the message.
MasterDecryptCall(data) ==
    /\ Len(decryptions) < MaxDecryptions
    /\ LET masterKey == deriveKey(data.entered, base64ToUint8Array(data.masterSalt))
           iv == base64ToUint8Array(data.masterEncryptedPayload.iv)
           ciphertext == base64ToUint8Array(data.masterEncryptedPayload.ciphertext)
           ok == MasterDecrypts(data)
       IN /\ decryptions' = Append(decryptions,
                 [fn |-> "handleMasterPasswordSubmit", args |-> <<data>>, ok |-> ok,
                  cause |-> IF ok THEN "none"
                            ELSE FailureCause(masterKey, iv, ciphertext),
                  out |-> IF ok THEN <<MasterPayload(data)>>
                          ELSE <<MasterFailureMessage>>])
          /\ lastOp' = IF ok THEN "Unlocked" ELSE "UnlockFailed"
    /\ DecryptFrame

InitDecrypt == InitAccount /\ authUser = Null

NextDecrypt ==
    \/ \E key \in DecryptKeys, iv \in DecryptIvs, ciphertext \in DecryptFields :
          DecryptDataCall(key, iv, ciphertext)
    \/ \E data \in MasterChallenges : MasterDecryptCall(data)

SpecDecrypt == InitDecrypt /\ [][NextDecrypt]_vars

\* ------------------------------------------------------------------ C29
\* C29: two failing decryptions that differ only in the cause of the failure
\* (wrong key, altered bytes, another iv) get the same error from
\* decryptData, and the master-password prompt shows the same message for
\* every cause.
C29_FailuresLookAlike ==
    \A i, j \in 1..Len(decryptions) :
        (/\ ~decryptions[i].ok
         /\ ~decryptions[j].ok
         /\ decryptions[i].fn = decryptions[j].fn)
        => decryptions[i].out = decryptions[j].out

\* decryptData failed twice, for different causes, or the prompt did.
C29_Witness ==
    /\ Len(decryptions) = 2
    /\ ~decryptions[1].ok /\ ~decryptions[2].ok
    /\ decryptions[1].fn = decryptions[2].fn
    /\ decryptions[1].cause # decryptions[2].cause

\* ================================================================== Base64
\* arrayBufferToBase64 and base64ToUint8Array on byte sequences, computed
\* as btoa and atob compute them.  A text is a sequence of characters.
MaxBytes == 4

\* Byte values whose bits fill every position of a sextet, among them the
\* ones that give the characters "+" and "/".
ByteValues == {0, 77, 97, 110, 251, 255}

\* The byte sequences that are encoded.
ByteInputs == UNION {[1..n -> ByteValues] : n \in 0..MaxBytes}

Base64Alphabet ==
    <<"A", "B", "C", "D", "E", "F", "G", "H", "I", "J", "K", "L", "M",
      "N", "O", "P", "Q", "R", "S", "T", "U", "V", "W", "X", "Y", "Z",
      "a", "b", "c", "d", "e", "f", "g", "h", "i", "j", "k", "l", "m",
      "n", "o", "p", "q", "r", "s", "t", "u", "v", "w", "x", "y", "z",
      "0", "1", "2", "3", "4", "5", "6", "7", "8", "9", "+", "/">>

Base64Char(sextet) == Base64Alphabet[sextet + 1]

Base64Index(c) == CHOOSE i \in 0..63 : Base64Alphabet[i + 1] = c

\* String.fromCharCode(bytes[i]): the character is named by its code unit.
fromCharCode(code) == code % 65536

\* The loop of arrayBufferToBase64: one character for every byte.
BinaryString(bytes) == [i \in 1..Len(bytes) |-> fromCharCode(bytes[i])]

\* window.btoa: three characters give four sextets, and a last group of one
\* or two characters is padded with "=".
RECURSIVE btoa(_)
btoa(binary) ==
    IF Len(binary) = 0 THEN <<>>
    ELSE LET n == Len(binary)
             a == binary[1]
             b == IF n >= 2 THEN binary[2] ELSE 0
             c == IF n >= 3 THEN binary[3] ELSE 0
         IN <<Base64Char(a \div 4),
              Base64Char((a % 4) * 16 + b \div 16),
              IF n >= 2 THEN Base64Char((b % 16) * 4 + c \div 64) ELSE "=",
              IF n >= 3 THEN Base64Char(c % 64) ELSE "=">>
            \o (IF n > 3 THEN btoa(SubSeq(binary, 4, n)) ELSE <<>>)

arrayBufferToBase64Bytes(buffer) == btoa(BinaryString(buffer))

\* atob removes one or two "=" from the end of a text whose length is a
\* multiple of four.
StripPadding(text) ==
    LET n == Len(text)
    IN IF n > 0 /\ n % 4 = 0 /\ text[n] = "="
       THEN IF text[n - 1] = "=" THEN SubSeq(text, 1, n - 2)
            ELSE SubSeq(text, 1, n - 1)
       ELSE text

\* Four sextets give three characters; of a last group of two or three
\* sextets the bits that do not fill a character are dropped.
RECURSIVE DecodeSextets(_)
DecodeSextets(s) ==
    IF Len(s) < 2 THEN <<>>
    ELSE LET n == Len(s)
             first == s[1] * 4 + s[2] \div 16
         IN IF n = 2 THEN <<first>>
            ELSE LET second == (s[2] % 16) * 16 + s[3] \div 4
                 IN IF n = 3 THEN <<first, second>>
                    ELSE <<first, second, (s[3] % 4) * 64 + s[4]>>
                         \o DecodeSextets(SubSeq(s, 5, n))

\* window.atob: throws on a character outside the alphabet and on a length
\* that leaves one sextet over.
atob(text) ==
    LET data == StripPadding(text)
    IN IF \/ Len(data) % 4 = 1
          \/ \E i \in 1..Len(data) : data[i] \notin Range(Base64Alphabet)
       THEN [ok |-> FALSE, binary |-> <<>>]
       ELSE [ok |-> TRUE,
             binary |-> DecodeSextets([i \in 1..Len(data) |-> Base64Index(data[i])])]

\* Mutant: the byte keeps seven bits of the character code.
Uint8_SevenBits(code) == code % 128

\* bytes[i] = binary_string.charCodeAt(i): an element of a Uint8Array keeps
\* the low eight bits.
Uint8(code) == code % 256

base64ToUint8ArrayBytes(base64) ==
    LET decoded == atob(base64)
    IN [ok |-> decoded.ok,
        bytes |-> [i \in 1..Len(decoded.binary) |-> Uint8(decoded.binary[i])]]

\* What is left unchanged by the Base64 helpers.
CodecFrame ==
    UNCHANGED <<authUser, storeVars, temporaryLoginPassword,
                currentEncryptionKey, vaultsCache, login, signOutPending,
                listeners, fetches, mainNavShown, timers, booted, nLogins,
                nLogoutClicks, nFetches, deriveCalls, opsVars, acctVars,
                decryptions, derivations>>

\* arrayBufferToBase64(buffer) is called on a byte sequence.
arrayBufferToBase64Call(buffer) ==
    /\ codec.pc = "idle"
    /\ codec' = [pc |-> "encoded", b |-> buffer,
                 text |-> arrayBufferToBase64Bytes(buffer), bytes |-> <<>>]
    /\ lastOp' = "Encoded"
    /\ CodecFrame

\* base64ToUint8Array is called on the text: it returns the bytes, or atob
\* throws.
base64ToUint8ArrayCall ==
    /\ codec.pc = "encoded"
    /\ LET r == base64ToUint8ArrayBytes(codec.text)
       IN codec' = [codec EXCEPT !.pc = IF r.ok THEN "decoded" ELSE "threw",
                                 !.bytes = r.bytes]
    /\ lastOp' = "Decoded"
    /\ CodecFrame

InitCodec == InitDecrypt

NextCodec ==
    \/ \E buffer \in ByteInputs : arrayBufferToBase64Call(buffer)
    \/ base64ToUint8ArrayCall

SpecCodec == InitCodec /\ [][NextCodec]_vars

\* ------------------------------------------------------------------ C31
\* C31: base64ToUint8Array(arrayBufferToBase64(b)) returns b, with the same
\* length and the same bytes in the same order, for every byte sequence b;
\* the text has four characters for every three bytes begun.
C31_Base64RoundTrip ==
    /\ codec.pc # "threw"
    /\ codec.pc \in {"encoded", "decoded"}
       => Len(codec.text) = 4 * ((Len(codec.b) + 2) \div 3)
    /\ codec.pc = "decoded"
       => /\ Len(codec.bytes) = Len(codec.b)
          /\ \A i \in 1..Len(codec.b) : codec.bytes[i] = codec.b[i]

\* A padded text with "+" and "/" in it was decoded.
C31_Witness ==
    /\ codec.pc = "decoded"
    /\ Len(codec.b) = 4
    /\ codec.text[Len(codec.text)] = "="
    /\ \E i, j \in 1..Len(codec.text) : codec.text[i] = "+" /\ codec.text[j] = "/"

\* ========================================================== key derivation
\* deriveKey called with passwords and with salts of several lengths, where
\* window.crypto.subtle is and is not available.
MaxDerivations == 2

DerivePasswords == {"pw1", "", Null}

\* A salt of generateSalt, a salt of eight bytes and an empty salt.
DeriveSalts == {"saltA", "salt8", "salt0"}

\* The number of bytes of a salt: generateSalt gives 16.
SaltLength(salt) ==
    IF salt = "salt0" THEN 0 ELSE IF salt = "salt8" THEN 8 ELSE 16

\* deriveKey returns a key whenever importKey and subtle.deriveKey exist:
\* the function looks at neither the password nor the length of the salt,
\* and PBKDF2 takes a salt of any length.
DeriveKeyOk(password, salt, subtle) == subtle

\* What is left unchanged by a key derivation.
DeriveFrame ==
    UNCHANGED <<authUser, storeVars, temporaryLoginPassword,
                currentEncryptionKey, vaultsCache, login, signOutPending,
                listeners, fetches, mainNavShown, timers, booted, nLogins,
                nLogoutClicks, nFetches, deriveCalls, opsVars, acctVars,
                decryptions, codec>>

\* deriveKey(password, salt) is called: the promise resolves with the key
\* or rejects with the error of the call that failed.
DeriveKeyCall(password, salt, subtle) ==
    /\ Len(derivations) < MaxDerivations
    /\ LET ok == DeriveKeyOk(password, salt, subtle)
       IN /\ derivations' = Append(derivations,
                 [password |-> password, salt |-> salt, subtle |-> subtle,
                  ok |-> ok,
                  key |-> IF ok THEN deriveKey(password, salt) ELSE NullRec])
          /\ lastOp' = IF ok THEN "Derived" ELSE "DeriveFailed"
    /\ DeriveFrame

InitDerive == InitDecrypt

NextDerive ==
    \E password \in DerivePasswords, salt \in DeriveSalts, subtle \in BOOLEAN :
        DeriveKeyCall(password, salt, subtle)

SpecDerive == InitDerive /\ [][NextDerive]_vars

\* ------------------------------------------------------------------ C32
\* C32: a call of deriveKey with a salt shorter than 16 bytes fails with a
\* key-derivation error; it returns no key.
C32_ShortSaltFails ==
    \A i \in 1..Len(derivations) :
        SaltLength(derivations[i].salt) < 16 => ~derivations[i].ok

\* ------------------------------------------------------------------ C33
\* C33: whenever a listener installs a session key, the key is the one
\* derived from the password that was entered in the login form for that
\* login and the salt stored for the user who logged in; it is never derived
\* from a temporary password that was already cleared.
C33_InstalledKeyFromLoginPassword ==
    [][\A i \in listeners :
          ListenerDeriveOk(i) =>
              /\ i.pw # Null
              /\ currentEncryptionKey'
                     = deriveKey(AccountPassword(i.user),
                                 base64ToUint8Array(profiles[i.user].salt))]_vars

\* ====================================================== the master prompt
\* The vault page with two master-protected records, each under its own
\* master password, and the prompt, its cancel button and the actions that
\* follow an unlock.
PromptIds == {"v2", "v4"}

OtherMasterPassword == "Other2!"

InitPromptDocs ==
    [u \in Users |->
        IF u = "alice"
        THEN <<VaultDoc("v2", <<"B">>, "master"),
               [VaultDoc("v4", <<"a">>, "master") EXCEPT
                   !.masterSalt = arrayBufferToBase64("saltN"),
                   !.masterEncryptedPayload =
                       StoredField(deriveKey(OtherMasterPassword, "saltN"), 4,
                                   [password |-> "secret2", pin |-> Null], TRUE)]>>
        ELSE <<>>]

\* alice is signed in on the vault page, her key is installed and her
\* vaults are fetched.
InitPrompt ==
    /\ authUser = "alice"
    /\ profiles = InitProfiles(NullRec)
    /\ vaultDocs = InitPromptDocs
    /\ temporaryLoginPassword = Null
    /\ currentEncryptionKey = AliceKey
    /\ vaultsCache = FetchedCache(currentEncryptionKey, vaultDocs, authUser)
    /\ login = IdleLogin
    /\ signOutPending = 0
    /\ listeners = {}
    /\ fetches = {}
    /\ mainNavShown = TRUE
    /\ timers = IF currentEncryptionKey = NullRec THEN NoTimers ELSE RunningTimers
    /\ booted = TRUE
    /\ nLogins = 0
    /\ nLogoutClicks = 0
    /\ nFetches = 0
    /\ deriveCalls = [n \in 0..MaxLogins |-> 0]
    /\ lastOp = "Init"
    /\ ops = {}
    /\ historyDocs = <<>>
    /\ ui = ClosedOverlays
    /\ audit = NoAudit
    /\ nOps = 0
    /\ AccountsIdle
    /\ CryptoIdle

NextPrompt ==
    \/ \E id \in PromptIds : ClickDelete(id)
    \/ \E id \in PromptIds : ClickViewMaster(id)
    \/ \E entered \in {"Sesame1!", OtherMasterPassword, ""} :
          handleMasterPasswordSubmit(entered)
    \/ MasterCancelClick
    \/ \E o \in ops : UnlockReturn(o)
    \/ \E pin \in PinInputs : handlePinSubmit(pin)
    \/ handlePinCancel
    \/ handleEditVaultCancel
    \/ \E o \in ops : DeleteDocFail(o)
    \/ \E o \in ops : DeleteDocOk(o)
    \/ \E o \in ops, rejected \in BOOLEAN : DeleteHistoryReturn(o, rejected)

SpecPrompt == InitPrompt /\ [][NextPrompt]_vars

\* ------------------------------------------------------------------ C34
\* C34: when a successful master-password submission runs the registered
\* action, the action is the one that was registered for the record whose
\* payload the submission decrypted, also when the prompt was cancelled and
\* opened again for another record while the submission was running.
C34_CallbackOfDecryptedRecord ==
    [][\A o \in ops :
          (/\ UnlockReturn(o)
           /\ MasterDecrypts(o.data)
           /\ ui.master.cb # NoCallback)
          => ui.master.cb.id = o.id]_vars

\* ------------------------------------------------------------------ C35
\* The PIN prompt is still open after a rejected attempt.
PinPromptAfterRejection == ui.pin.shown /\ ui.pin.id = Null

\* The action the prompt was opened with has started.
PinActionRan(cb) ==
    IF cb.kind = "edit" THEN ui'.edit.id = cb.id
    ELSE \E o \in ops' \ ops : o.kind = "delete" /\ o.id = cb.id

\* C35: a wrong PIN leaves the PIN prompt open, and the PIN of the record
\* the prompt was opened for, submitted in that prompt after a wrong one, is
\* accepted and starts the action the prompt was opened with.
C35_RetryAfterWrongPin ==
    [][\A pin \in PinInputs :
          handlePinSubmit(pin) =>
              /\ ~validatePin(vaultsCache, pin, ui.pin.id) => ui'.pin.shown
              /\ (/\ PinPromptAfterRejection
                  /\ validatePin(vaultsCache, pin, ui.pin.asked.id))
                 => /\ lastOp' = "PinAccepted"
                    /\ ~ui'.pin.shown
                    /\ PinActionRan(ui.pin.asked)]_vars

\* ============================================================= auto logout
\* The whole program with the inactivity timeout, the warning timeout and
\* the activity events.
MaxActivity == 1

\* What a timeout or an activity event leaves unchanged.
TimerFrame ==
    /\ UNCHANGED <<authUser, storeVars, temporaryLoginPassword,
                   currentEncryptionKey, vaultsCache, login, listeners,
                   fetches, mainNavShown, booted, nLogins, nLogoutClicks,
                   nFetches, deriveCalls>>
    /\ UNCHANGED <<opsVars, acctVars, cryptoVars>>

\* The inactivity timeout fires: showLogoutWarning.
InactivityTimeout ==
    /\ timers.inactivity
    /\ timers' = showLogoutWarning(timers)
    /\ lastOp' = "WarningShown"
    /\ UNCHANGED signOutPending
    /\ TimerFrame

\* The warning timeout fires: performAutoLogout.
WarningTimeout ==
    /\ timers.warning
    /\ LET st == performAutoLogout(Session)
       IN timers' = st.timers /\ signOutPending' = st.so
    /\ lastOp' = "AutoLogout"
    /\ TimerFrame

\* A mousemove, keydown, click or scroll event: handleUserActivity.
UserActivity ==
    /\ timers.listening
    /\ timers.n < MaxActivity
    /\ timers' = [startAutoLogoutTimers(timers) EXCEPT !.n = @ + 1]
    /\ lastOp' = "Activity"
    /\ UNCHANGED signOutPending
    /\ TimerFrame

\* What is typed into the login form: alice's password or a wrong one.
TimerLogins == {<<"alice", "pw1">>, <<"alice", "pw2">>}

\* Page load with nobody signed in, or alice on the vault page: the second
\* listener has established her session, her vaults are fetched.
InitTimers ==
    /\ authUser \in {Null, "alice"}
    /\ profiles = InitProfiles(NullRec)
    /\ vaultDocs = InitVaultDocs
    /\ temporaryLoginPassword = Null
    /\ currentEncryptionKey = IF authUser = Null THEN NullRec ELSE AliceKey
    /\ vaultsCache = IF authUser = Null THEN <<>>
                     ELSE FetchedCache(currentEncryptionKey, vaultDocs, authUser)
    /\ login = IdleLogin
    /\ signOutPending = 0
    /\ listeners = {}
    /\ fetches = {}
    /\ mainNavShown = (authUser # Null)
    /\ timers = IF authUser = Null THEN NoTimers ELSE RunningTimers
    /\ booted = (authUser # Null)
    /\ nLogins = 0
    /\ nLogoutClicks = 0
    /\ nFetches = 0
    /\ deriveCalls = [n \in 0..MaxLogins |-> 0]
    /\ lastOp = "Init"
    /\ ops = {}
    /\ historyDocs = <<>>
    /\ ui = ClosedOverlays
    /\ audit = NoAudit
    /\ nOps = 0
    /\ AccountsIdle
    /\ CryptoIdle

\* The fetches that a login starts stay pending: their steps write the
\* cache and nothing the timers or the listeners read.
NextTimers ==
    \/ InitialAuthEvent
    \/ \E c \in TimerLogins : LoginSubmit(c[1], c[2])
    \/ LoginFail
    \/ LoginSignedIn
    \/ LogoutClick
    \/ SignOutReturn
    \/ \E i \in listeners, rejected \in BOOLEAN : ListenerProfileReturn(i, rejected)
    \/ \E i \in listeners : ListenerDeriveFail(i)
    \/ \E i \in listeners : ListenerDeriveOk(i)
    \/ InactivityTimeout
    \/ WarningTimeout
    \/ UserActivity

SpecTimers == InitTimers /\ [][NextTimers]_vars

\* The scheduling of the event loop: a pending provider notification, a
\* pending signOut and the awaited calls of a listener do complete, and a
\* timeout that stays set does fire.
FairTimers ==
    /\ SpecTimers
    /\ WF_vars(InitialAuthEvent)
    /\ WF_vars(SignOutReturn)
    /\ WF_vars(\E i \in listeners, rejected \in BOOLEAN :
                   ListenerProfileReturn(i, rejected))
    /\ WF_vars(\E i \in listeners : ListenerDeriveFail(i) \/ ListenerDeriveOk(i))
    /\ WF_vars(InactivityTimeout)
    /\ WF_vars(WarningTimeout)

\* ------------------------------------------------------------------ C36
\* A verified user is signed in and the vault module holds a key.
SessionHeld ==
    /\ authUser # Null
    /\ EmailVerified(authUser)
    /\ currentEncryptionKey # NullRec

MaxDeletions == 1

\* What is typed into the delete-account form.
DeletePasswords == {"pw1", "pw2", ""}

\* The steps of the handler, in the order of its try block.
DeletionSteps == <<"reauth", "vaults", "profile", "user">>

\* deleteAllUserVaults after its snapshot: with no document it returns and
\* deleteUserProfile is called, otherwise Promise.all is awaited.
DeletionAfterSnapshot(d) ==
    IF d.pending = {}
    THEN [d EXCEPT !.pc = "deleteProfile", !.done = Append(@, "vaults")]
    ELSE [d EXCEPT !.pc = "deleteDocs"]

\* deleteDoc of a vault document.
deleteVaultDoc(docs, userId, vaultId) ==
    [docs EXCEPT ![userId] = SelectSeq(@, LAMBDA d : d.id # vaultId)]

\* deleteUserProfile: deleteDoc of users/{uid}.
deleteUserProfile(store, userId) == [store EXCEPT ![userId] = NullRec]

\* The handler ends in its catch with the message of the error.
DeletionFailed(d, message) == [d EXCEPT !.pc = "idle", !.shown = <<message>>]

\* What a step of the handler leaves unchanged.
DeletionFrame ==
    /\ UNCHANGED <<temporaryLoginPassword, currentEncryptionKey, vaultsCache,
                   login, signOutPending, listeners, fetches, mainNavShown,
                   timers, booted, nLogins, nLogoutClicks, nFetches,
                   deriveCalls>>
    /\ UNCHANGED <<opsVars, cryptoVars, accounts, signup, picture, authUser>>

\* The delete-account form is submitted; the button is disabled while the
\* handler runs.  reauthenticateUser is awaited.
DeleteAccountSubmit(password) ==
    /\ booted
    /\ mainNavShown
    /\ deletion.pc = "idle"
    /\ deletion.n < MaxDeletions
    /\ deletion' =
          IF authUser = Null
          THEN [deletion EXCEPT !.n = @ + 1, !.shown = <<"Not logged in.">>]
          ELSE IF password = ""
          THEN [deletion EXCEPT !.n = @ + 1,
                                !.shown = <<"Please enter your password.">>]
          ELSE [deletion EXCEPT !.n = @ + 1, !.pc = "reauth", !.uid = authUser,
                                !.password = password, !.done = <<>>,
                                !.shown = <<>>]
    /\ lastOp' = IF deletion'.pc = "reauth" THEN "DeleteSubmitted"
                 ELSE "DeleteNotStarted"
    /\ UNCHANGED storeVars
    /\ DeletionFrame

\* reauthenticateUser returns: the provider accepts the account password of
\* the signed-in user.  deleteAllUserVaults reads the collection next.
ReauthReturn(rejected) ==
    /\ deletion.pc = "reauth"
    /\ ~rejected => /\ authUser = deletion.uid
                    /\ deletion.password = AccountPassword(deletion.uid)
    /\ deletion' =
          IF rejected
          THEN DeletionFailed(deletion,
                   IF deletion.password # AccountPassword(deletion.uid)
                   THEN "Incorrect password. Please try again."
                   ELSE "Re-authentication failed. Please try again.")
          ELSE [deletion EXCEPT !.pc = "getDocs", !.done = Append(@, "reauth")]
    /\ lastOp' = IF rejected THEN "ReauthFailed" ELSE "Reauthenticated"
    /\ UNCHANGED storeVars
    /\ DeletionFrame

\* getDocs returns the documents the collection holds now; a deleteDoc is
\* issued for each of them.
GetDocsReturn(rejected) ==
    /\ deletion.pc = "getDocs"
    /\ deletion' =
          IF rejected
          THEN DeletionFailed(deletion, "Failed to delete all user vaults.")
          ELSE DeletionAfterSnapshot(
                   [deletion EXCEPT !.pending =
                       @ \cup Range(Ids(getVaults(vaultDocs, deletion.uid)))])
    /\ lastOp' = IF rejected THEN "GetDocsFailed" ELSE "GotDocs"
    /\ UNCHANGED storeVars
    /\ DeletionFrame

\* One deleteDoc of deleteAllUserVaults returns.  Promise.all rejects with
\* the first rejection, while the other calls go on; it resolves when all
\* have resolved, and deleteUserProfile is called.
DeleteOneDoc(vaultId, rejected) ==
    /\ vaultId \in deletion.pending
    /\ vaultDocs' = IF rejected THEN vaultDocs
                    ELSE deleteVaultDoc(vaultDocs, deletion.uid, vaultId)
    /\ LET left == [deletion EXCEPT !.pending = @ \ {vaultId}]
       IN deletion' =
             IF deletion.pc # "deleteDocs" THEN left
             ELSE IF rejected
             THEN DeletionFailed(left, "Failed to delete all user vaults.")
             ELSE IF left.pending = {}
             THEN [left EXCEPT !.pc = "deleteProfile", !.done = Append(@, "vaults")]
             ELSE left
    /\ lastOp' = IF rejected THEN "DeleteDocRejected" ELSE "DeletedDoc"
    /\ UNCHANGED profiles
    /\ DeletionFrame

\* deleteUserProfile returns; deleteCurrentUser throws when nobody is
\* signed in any more and calls deleteUser otherwise.
DeleteProfileReturn(rejected) ==
    /\ deletion.pc = "deleteProfile"
    /\ profiles' = IF rejected THEN profiles
                   ELSE deleteUserProfile(profiles, deletion.uid)
    /\ deletion' =
          IF rejected
          THEN DeletionFailed(deletion, "Failed to delete user profile document.")
          ELSE IF authUser = Null
          THEN DeletionFailed([deletion EXCEPT !.done = Append(@, "profile")],
                              "No user is currently signed in to delete.")
          ELSE [deletion EXCEPT !.pc = "deleteUser", !.done = Append(@, "profile")]
    /\ lastOp' = IF rejected THEN "DeleteProfileFailed" ELSE "DeletedProfile"
    /\ UNCHANGED vaultDocs
    /\ DeletionFrame

\* deleteUser rejects.
DeleteUserFail ==
    /\ deletion.pc = "deleteUser"
    /\ deletion' = DeletionFailed(deletion,
           "Failed to delete user account from Firebase Authentication.")
    /\ lastOp' = "DeleteUserFailed"
    /\ UNCHANGED storeVars
    /\ DeletionFrame

\* deleteUser returns: the account is gone, nobody is signed in and the
\* listeners are notified.
DeleteUserOk ==
    /\ deletion.pc = "deleteUser"
    /\ authUser = deletion.uid
    /\ signOutPending = 0
    /\ accounts' = accounts \ {deletion.uid}
    /\ authUser' = Null
    /\ SetSession(Dispatch(Session, Null, 0))
    /\ deletion' = [deletion EXCEPT !.pc = "idle", !.done = Append(@, "user"),
                                    !.shown = <<"Account deleted successfully.">>]
    /\ lastOp' = "DeletedUser"
    /\ UNCHANGED <<storeVars, login, fetches, booted, nLogins, nLogoutClicks,
                   nFetches, deriveCalls, opsVars, cryptoVars, signup, picture>>

\* The vault that is being added when the account is deleted.
DeletionAddInputs == {<<PlaintextData(<<"B">>, "secret", Null, FALSE, Null), TRUE>>}

\* alice on her pages, her session established and her vaults fetched.
InitDelete == InitAccount /\ authUser = "alice"

NextDelete ==
    \/ \E password \in DeletePasswords : DeleteAccountSubmit(password)
    \/ \E rejected \in BOOLEAN : ReauthReturn(rejected)
    \/ \E rejected \in BOOLEAN : GetDocsReturn(rejected)
    \/ \E id \in deletion.pending, rejected \in BOOLEAN : DeleteOneDoc(id, rejected)
    \/ \E rejected \in BOOLEAN : DeleteProfileReturn(rejected)
    \/ DeleteUserFail
    \/ DeleteUserOk
    \/ \E validFile \in BOOLEAN : handleProfilePictureChange(validFile)
    \/ \E r \in picture.runs, rejected \in BOOLEAN : PictureSaveReturn(r, rejected)
    \/ \E call \in DeletionAddInputs : AddVaultCall(call[1], call[2])
    \/ \E o \in ops : AddVaultFail(o)
    \/ \E o \in ops : AddVaultOk(o)
    \/ \E o \in ops : AddHistoryFail(o)
    \/ \E o \in ops : AddHistoryOk(o)
    \/ LogoutClick
    \/ SignOutReturn

SpecDelete == InitDelete /\ [][NextDelete]_vars

\* ------------------------------------------------------------------ C37
\* The steps that have succeeded are the first steps of the order.
DoneInOrder ==
    /\ Len(deletion.done) <= Len(DeletionSteps)
    /\ \A i \in 1..Len(deletion.done) : deletion.done[i] = DeletionSteps[i]

\* C37: the steps of an account deletion succeed in the order
\* re-authentication, vault documents, profile document, auth user, each
\* only after all earlier ones; a run whose re-authentication failed deletes
\* nothing; and when the auth user is deleted, the store holds neither a
\* vault document nor the profile of that user.
C37_DeletionOrdered ==
    /\ []DoneInOrder
    /\ [][(\/ \E id \in deletion.pending, rejected \in BOOLEAN :
                  DeleteOneDoc(id, rejected)
           \/ \E rejected \in BOOLEAN : DeleteProfileReturn(rejected))
          => deletion.done # <<>> /\ deletion.done[1] = "reauth"]_vars
    /\ [][\E rejected \in BOOLEAN : ReauthReturn(rejected) /\ rejected
          => UNCHANGED <<storeVars, accounts>> /\ deletion'.pc = "idle"]_vars
    /\ [][DeleteUserOk =>
             /\ getVaults(vaultDocs, deletion.uid) = <<>>
             /\ profiles[deletion.uid] = NullRec]_vars

\* ------------------------------------------------------------------ C38
\* No vault operation and no fetch is in flight.
NothingInFlight == ops = {} /\ fetches = {}

\* C38: once all in-flight operations have completed, the cache holds a
\* record id only if the store holds a document with that id, however
\* deleteVault interleaves with a running fetchAndDecryptVaults.
C38_CacheWithinStore ==
    (NothingInFlight /\ authUser # Null) =>
        Range(Ids(vaultsCache)) \subseteq Range(Ids(getVaults(vaultDocs, authUser)))

\* ------------------------------------------------------------------ C39
\* The call of operation o ends by throwing to its caller in this step.
ReportsFailure(o) ==
    \/ AddVaultFail(o)
    \/ AddHistoryFail(o)
    \/ EditUpdateFail(o)
    \/ EditHistoryReturn(o, TRUE)
    \/ DeleteDocFail(o)
    \/ DeleteHistoryReturn(o, TRUE)

\* The call of operation o has written the vault collection: it created the
\* document of its new id, its updateVault returned, or its deleteVaultDoc
\* returned (addHistory is awaited only after that).
ChangedVaultCollection(o) ==
    \/ o.kind = "add" /\ StoredDoc(vaultDocs, o.uid, o.id) # NullRec
    \/ o.kind = "edit" /\ [id |-> o.id, n |-> o.n] \in audit.wrote
    \/ o.kind = "delete" /\ o.pc = "addHistory"

\* C39: when addVaultWithHistory, editVaultWithHistory or deleteVault
\* reports failure to its caller, that call has not created, updated or
\* deleted a vault document.
C39_FailureLeavesStore ==
    [][\A o \in ops : ReportsFailure(o) => ~ChangedVaultCollection(o)]_vars

\* ========================================================= forgot-PIN flow
\* The "Forgot PIN" link of the PIN prompt, the re-authentication overlay
\* and the reset overlay with its Remove PIN and Set New PIN buttons.
MaxResets == 4

\* What is typed into the re-authentication overlay.
ReauthPasswords == {"pw1", "pw2", ""}

\* What is typed into the new-PIN form: the new PIN and its confirmation.
NewPinInputs == {<<"5678", "5678">>, <<"5678", "1234">>, <<"12", "12">>}

\* /^\d{4,16}$/ on the PINs that are typed.
PinWellFormed(newPin) == newPin \in {"5678", "1234", "0000"}

\* closePinResetActionOverlay.
closePinResetActionOverlay(r) == [r EXCEPT !.actionShown = FALSE, !.id = Null]

\* openPinResetActionOverlay: it returns when no record is selected, closes
\* when the record is not in the cache, and disables both buttons for a
\* master-protected record.
openPinResetActionOverlay(r, cache) ==
    LET vault == getVaultById(cache, r.id)
    IN IF r.id = Null THEN r
       ELSE IF vault = NullRec THEN closePinResetActionOverlay(r)
       ELSE [r EXCEPT !.actionShown = TRUE, !.formShown = FALSE,
                      !.enabled = ~vault.isMasterProtected]

\* handleForgotVaultPin: the link of the PIN prompt.  The prompt is hidden,
\* its record becomes the record of the reset and the re-authentication
\* overlay is shown; a master-protected record only adds a warning.
handleForgotVaultPin ==
    /\ ui.pin.shown
    /\ ui.reset.steps < MaxResets
    /\ LET vault == getVaultById(vaultsCache, ui.pin.id)
       IN ui' =
             IF ui.pin.id = Null
             THEN [ui EXCEPT !.reset.steps = @ + 1]
             ELSE [ui EXCEPT !.pin.shown = FALSE,
                             !.reset.id = ui.pin.id,
                             !.reset.reauthShown = (vault # NullRec),
                             !.reset.since = FALSE,
                             !.reset.steps = @ + 1]
    /\ lastOp' = IF ui.pin.id = Null THEN "ForgotNoRecord" ELSE "ForgotPin"
    /\ UNCHANGED <<ops, nOps>>
    /\ UiFrame

\* handleReauthenticationForPinReset up to its await of reauthenticateUser;
\* an empty password only shows a message.
handleReauthenticationForPinReset(password) ==
    /\ ui.reset.reauthShown
    /\ ui.reset.steps < MaxResets
    /\ ui' = IF password = ""
             THEN [ui EXCEPT !.reset.steps = @ + 1]
             ELSE [ui EXCEPT !.reset.steps = @ + 1,
                             !.reset.calls = @ \cup
                                 {[n |-> ui.reset.steps + 1, password |-> password]}]
    /\ lastOp' = IF password = "" THEN "ReauthNoPassword" ELSE "ReauthSubmitted"
    /\ UNCHANGED <<ops, nOps>>
    /\ UiFrame

\* reauthenticateUser returns: the provider accepts the account password of
\* the signed-in user.  After a success a timer of one second is set that
\* closes the re-authentication overlay and opens the reset overlay.
PinResetReauthReturn(c, rejected) ==
    /\ c \in ui.reset.calls
    /\ ~rejected => authUser # Null /\ c.password = AccountPassword(authUser)
    /\ ui' = IF rejected
             THEN [ui EXCEPT !.reset.calls = @ \ {c}]
             ELSE [ui EXCEPT !.reset.calls = @ \ {c},
                             !.reset.opens = @ + 1,
                             !.reset.since = TRUE]
    /\ lastOp' = IF rejected THEN "PinResetReauthFailed" ELSE "PinResetReauthOk"
    /\ UNCHANGED <<ops, nOps>>
    /\ UiFrame

\* The Cancel button of the re-authentication overlay: closeReauthOverlay.
CancelReauthClick ==
    /\ ui.reset.reauthShown
    /\ ui' = [ui EXCEPT !.reset.reauthShown = FALSE]
    /\ lastOp' = "ReauthCancel"
    /\ UNCHANGED <<ops, nOps>>
    /\ UiFrame

\* The timer set after a successful re-authentication fires.
ReauthTimerFires ==
    /\ ui.reset.opens > 0
    /\ ui' = [ui EXCEPT !.reset =
                 openPinResetActionOverlay(
                     [@ EXCEPT !.opens = @ - 1, !.reauthShown = FALSE],
                     vaultsCache)]
    /\ lastOp' = IF ui'.reset.actionShown THEN "ResetOverlayOpened"
                 ELSE "ResetOverlayNotOpened"
    /\ UNCHANGED <<ops, nOps>>
    /\ UiFrame

\* The Set New PIN button shows the new-PIN form.
SetNewPinButtonClick ==
    /\ ui.reset.actionShown /\ ui.reset.enabled
    /\ ~ui.reset.formShown
    /\ ui' = [ui EXCEPT !.reset.formShown = TRUE]
    /\ lastOp' = "NewPinFormShown"
    /\ UNCHANGED <<ops, nOps>>
    /\ UiFrame

\* The call of editVaultWithHistory that both reset handlers make with the
\* record of the cache: its title and password are kept, the PIN is newPin.
PinResetEdit(newPin) ==
    LET vault == getVaultById(vaultsCache, ui.reset.id)
        updated == [title |-> vault.title, password |-> vault.password,
                    pin |-> newPin]
    IN IF ui.reset.id = Null
       THEN /\ lastOp' = "PinResetNoRecord"
            /\ UNCHANGED <<ops, nOps>>
            /\ ui' = [ui EXCEPT !.reset.steps = @ + 1]
       ELSE IF vault = NullRec \/ vault.isMasterProtected
       THEN /\ lastOp' = "PinResetRefused"
            /\ UNCHANGED <<ops, nOps>>
            /\ ui' = [ui EXCEPT !.reset.steps = @ + 1]
       ELSE /\ ops' = ops \cup editVaultCall(ui.reset.id, updated, vault,
                                             nOps + 1, FALSE)
            /\ nOps' = nOps + 1
            /\ ui' = [ui EXCEPT !.reset.steps = @ + 1]
            /\ lastOp' = IF EditCanPrepare(authUser, currentEncryptionKey, vault)
                         THEN "PinResetCalled"
                         ELSE EditError(authUser, currentEncryptionKey, vault)

\* handleRemoveVaultPin up to its await of editVaultWithHistory.
handleRemoveVaultPin ==
    /\ ui.reset.actionShown /\ ui.reset.enabled
    /\ ui.reset.steps < MaxResets
    /\ PinResetEdit(Null)
    /\ UiFrame

\* handleSetNewVaultPin up to its await of editVaultWithHistory; the form
\* checks that the PIN is entered twice and has 4 to 16 digits.
handleSetNewVaultPin(newPin, confirmPin) ==
    /\ ui.reset.actionShown /\ ui.reset.formShown
    /\ ui.reset.steps < MaxResets
    /\ IF ui.reset.id # Null
          /\ (newPin = "" \/ confirmPin = "" \/ newPin # confirmPin
              \/ ~PinWellFormed(newPin))
       THEN /\ lastOp' = "NewPinRejected"
            /\ UNCHANGED <<ops, nOps>>
            /\ ui' = [ui EXCEPT !.reset.steps = @ + 1]
       ELSE PinResetEdit(newPin)
    /\ UiFrame

\* addHistory returns or rejects after the edit of a PIN reset.  After a
\* success the handler goes on to fetchAndDecryptVaults, which throws at
\* once when nobody is signed in or no key is installed.
PinResetEditReturn(o, rejected) ==
    /\ o \in ops /\ o.kind = "edit" /\ o.pc = "addHistory"
    /\ ops' = ops \ {o}
    /\ historyDocs' = IF rejected THEN historyDocs
                      ELSE addHistory(historyDocs, "edited", o.id, o.data.title)
    /\ fetches' = IF ~rejected /\ FetchCanStart(authUser, currentEncryptionKey)
                  THEN fetches \cup {NewFetch(<<5, o.n>>, authUser)}
                  ELSE fetches
    /\ audit' = IF rejected THEN audit
                ELSE [audit EXCEPT !.edited = @ \cup
                         {[id |-> o.id, n |-> o.n, title |-> o.data.title,
                           password |-> o.data.password, pin |-> o.data.pin]}]
    /\ lastOp' = IF rejected THEN "PinResetHistoryFailed" ELSE "PinResetDone"
    /\ UNCHANGED <<vaultDocs, vaultsCache, ui, nOps>>
    /\ OpFrame

\* The Cancel button of the reset overlay.
CancelPinResetClick ==
    /\ ui.reset.actionShown
    /\ ui' = [ui EXCEPT !.reset = closePinResetActionOverlay(@)]
    /\ lastOp' = "PinResetCancel"
    /\ UNCHANGED <<ops, nOps>>
    /\ UiFrame

\* The timer set after a successful reset fires.
CloseTimerFires ==
    /\ ui.reset.closes > 0
    /\ ui' = [ui EXCEPT !.reset = closePinResetActionOverlay(
                                      [@ EXCEPT !.closes = @ - 1])]
    /\ lastOp' = "PinResetClosed"
    /\ UNCHANGED <<ops, nOps>>
    /\ UiFrame

\* alice on the vault page, her key installed and her vaults fetched.
InitPinReset == InitOps /\ currentEncryptionKey = AliceKey

NextPinReset ==
    \/ ClickEdit("v1")
    \/ ClickViewMaster("v2")
    \/ handleMasterPasswordSubmit("Sesame1!")
    \/ \E o \in ops : UnlockReturn(o)
    \/ handlePinSubmit("0000")
    \/ handlePinCancel
    \/ handleForgotVaultPin
    \/ \E password \in ReauthPasswords : handleReauthenticationForPinReset(password)
    \/ \E c \in ui.reset.calls, rejected \in BOOLEAN : PinResetReauthReturn(c, rejected)
    \/ CancelReauthClick
    \/ ReauthTimerFires
    \/ SetNewPinButtonClick
    \/ handleRemoveVaultPin
    \/ \E input \in NewPinInputs : handleSetNewVaultPin(input[1], input[2])
    \/ \E o \in ops : EditUpdateFail(o)
    \/ \E o \in ops : EditUpdateOk(o)
    \/ \E o \in ops, rejected \in BOOLEAN : PinResetEditReturn(o, rejected)
    \/ CancelPinResetClick
    \/ CloseTimerFires
    \/ \E f \in fetches : FetchReadFail(f)
    \/ \E f \in fetches : FetchRead(f)
    \/ \E f \in fetches : FetchDecryptNext(f)

SpecPinReset == InitPinReset /\ [][NextPinReset]_vars

\* ------------------------------------------------------------------ C40
\* A reset handler calls editVaultWithHistory in this step.
PinResetCalls(o) == o \in ops' \ ops /\ o.kind = "edit"

\* C40: through the forgot-PIN flow the PIN of a record is removed or
\* replaced only after reauthenticateUser succeeded within that flow, that
\* is since its link was clicked, and never for a master-protected record.
C40_ResetOnlyAfterReauth ==
    [][\A o \in ops' : PinResetCalls(o) =>
           /\ ui.reset.since
           /\ ~StoredDoc(vaultDocs, o.uid, o.id).isMasterProtected]_vars

====
